---- MODULE Spec2Model ----
(***************************************************************************)
(* A state-machine model of the nlpc-attendance serverless handlers.       *)
(*                                                                         *)
(* The relational store is modelled as one set of rows per table.  Every   *)
(* handler is a sequence of steps, one per awaited call (a SQL statement,  *)
(* a pool operation, a provider call), so that requests interleave exactly *)
(* where the JavaScript handlers suspend.  A statement of the store is     *)
(* atomic; a transaction (BEGIN .. COMMIT) stages its writes and readers   *)
(* outside it see only committed rows (PostgreSQL READ COMMITTED).         *)
(***************************************************************************)
EXTENDS Integers, Sequences, FiniteSets, TLC

(***************************************************************************)
(* Bounds of the model.                                                    *)
(***************************************************************************)
\* longest attendeeIds array a request carries
MaxIds == 2

\* the clock runs from 0 to MaxTime hours, in steps of TickHours
MaxTime == 36
TickHours == 12

\* absentee_checkins rows, and vimeo_passwords rows, created in one run
MaxCheckins == 2
MaxRotations == 2

\* an access code is validated at most MaxUses times in one run
MaxUses == 3

\* request slots: the handler invocations that may be in flight together
Procs == {"r1", "r2"}

\* the slot that serves the requests of a run in which requests do not overlap
SeqProc == "r1"

\* a nullable timestamp column holds << >> (SQL NULL) or <<t>>
NULL == << >>

(***************************************************************************)
(* The member directory (migrations/005: members.id is the key that        *)
(* attendance.member_id references).  "zz" is an identifier that is in no  *)
(* members row.                                                            *)
(***************************************************************************)
Members == {"m1", "m2"}
IdUniverse == Members \cup {"zz"}

(***************************************************************************)
(* Strings that the handlers take apart are sequences of tokens; the token *)
(* "T" is the letter the recorder splits a date on.                        *)
(***************************************************************************)
DateInputs ==
  { <<"2024-05-05">>,
    <<"2024-05-05", "T", "09:30:00Z">>,
    <<"2024-05-12">>,
    <<"T", "09:30:00Z">>,
    << >> }

ServiceInputs == {"Sunday Morning", "Wednesday Evening", ""}

\* the calendar dates the store's DATE type accepts
ValidDates == { <<"2024-05-05">>, <<"2024-05-12">> }

RECURSIVE SeqsUpTo(_, _)
SeqsUpTo(S, n) ==
  IF n = 0 THEN { << >> }
  ELSE LET shorter == SeqsUpTo(S, n - 1)
       IN shorter \cup { Append(s, x) : s \in { t \in shorter : Len(t) = n - 1 }, x \in S }

Range(s) == { s[i] : i \in 1..Len(s) }

\* attendeeIds as sent: an array of identifiers
IdLists == SeqsUpTo(IdUniverse, MaxIds)

\* event.body: text that JSON.parse rejects (parses = FALSE), or a parsed object whose
\* attendeeIds is an array (isArray) or something else
Malformed ==
  [parses |-> FALSE, date |-> << >>, serviceType |-> "", isArray |-> FALSE, attendeeIds |-> << >>]
Bodies ==
  {Malformed} \cup
  [parses : {TRUE}, date : DateInputs \ { << >> }, serviceType : ServiceInputs \ {""},
   isArray : {TRUE}, attendeeIds : IdLists] \cup
  [parses : {TRUE}, date : { << >> }, serviceType : ServiceInputs \ {""},
   isArray : {TRUE}, attendeeIds : { <<"m1">> }] \cup
  [parses : {TRUE}, date : { <<"2024-05-05">> }, serviceType : ServiceInputs,
   isArray : BOOLEAN, attendeeIds : { << >> }]

Methods == {"OPTIONS", "GET", "POST"}

(***************************************************************************)
(* The deployment's environment variables: DATABASE_URL (db), the Twilio   *)
(* credentials and sender number (twilio), VIMEO_ACCESS_TOKEN (token) and  *)
(* VIMEO_VIDEO_ID (videoId, "" when unset).                                *)
(***************************************************************************)
EnvFull == [db |-> TRUE, twilio |-> TRUE, token |-> TRUE, videoId |-> "v0"]
EnvNoSms == [db |-> TRUE, twilio |-> FALSE, token |-> FALSE, videoId |-> ""]
EnvNoDb == [db |-> FALSE, twilio |-> TRUE, token |-> TRUE, videoId |-> "v0"]
Envs == {EnvFull, EnvNoSms, EnvNoDb}

(***************************************************************************)
(* State.                                                                  *)
(***************************************************************************)
VARIABLES
  env,            \* the environment the functions were deployed with
  now,            \* the clock, in hours
  attendance,     \* committed rows of table attendance
  lastList,       \* history: per (date, service_type), the ids of the last committed call
  held,           \* connections checked out of the recorder's pool
  rec,            \* per slot: the attendance recorder invocation in flight
  checkins,       \* rows of table absentee_checkins
  vimeo,          \* rows of table vimeo_passwords
  codes,          \* rows of table stream_access_codes
  sms,            \* the text messages the SMS provider accepted
  valLog,         \* history: per access-code row, the times of its successful validations
  abs,            \* per slot: the absence check-in invocation in flight
  ver,            \* per slot: the verify-stream-code invocation in flight
  rot,            \* the password rotation invocation in flight
  schedule,       \* rows of table password_rotation_schedule
  sched,          \* the scheduled rotation job's invocation in flight
  rep,            \* the member absence report invocation in flight
  ntf,            \* the notification batch (notify-absentees, broadcast) in flight
  users,          \* rows of table users
  userSeq,        \* history: the users rows inserted so far
  usr             \* per slot: the users invocation in flight

userVars == <<users, userSeq, usr>>
attVars == <<attendance, lastList, held, rec, rep, ntf>>
codeVars == <<now, checkins, vimeo, codes, sms, valLog, abs, ver, rot, schedule, sched>>
vars == <<env, userVars, attVars, codeVars>>

Pairs == ValidDates \X (ServiceInputs \ {""})

Row(d, s, m) == [date |-> d, service_type |-> s, member_id |-> m, present |-> TRUE]

\* rows of a table that belong to one service occurrence
RowsOf(tbl, d, s) == { r \in tbl : r.date = d /\ r.service_type = s }

NoResp == [status |-> 0, json |-> FALSE, error |-> FALSE, count |-> 0, deletedPrevious |-> 0]

\* respond(statusCode, body): a JSON body; an error string for every non-2xx status
Respond(code, cnt, del) ==
  [status |-> code, json |-> TRUE, error |-> (code >= 400), count |-> cnt, deletedPrevious |-> del]

\* the CORS preflight answer: status 200 with an empty, non-JSON body
Preflight == [status |-> 200, json |-> FALSE, error |-> FALSE, count |-> 0, deletedPrevious |-> 0]

\* the handler's promise rejected: no response object is returned
Uncaught == [status |-> 500, json |-> FALSE, error |-> FALSE, count |-> 0, deletedPrevious |-> 0]

\* an invocation's locals: the request body until it is validated, then the
\* normalised date, the service type and the attendeeIds array
IdleRec ==
  [pc |-> "idle", body |-> Malformed, date |-> << >>, serviceType |-> "", ids |-> << >>,
   tx |-> "none", txDel |-> {}, txIns |-> {}, deleted |-> 0, before |-> {},
   failed |-> "", resp |-> NoResp]

\* an absence check-in invocation's locals: member is the id of the members row
\* the lookup returned, active whether the password lookup returned a row
IdleAbs ==
  [pc |-> "idle", kind |-> "", name |-> << >>, phone |-> << >>, to |-> << >>,
   sendLink |-> FALSE, member |-> "", checkin |-> 0, active |-> FALSE,
   attempts |-> 0, code |-> << >>, inserts |-> 0,
   smsSent |-> FALSE, smsError |-> "",
   resp |-> [status |-> 0, json |-> FALSE, success |-> FALSE, notMember |-> FALSE,
             smsError |-> ""]]

\* a verify-stream-code invocation's locals: the normalised code, the columns of
\* the row read that the handler goes on to use (accessCode), the time of the
\* expiry check (at) and the active password read (vimeo)
NoCodeRow == [id |-> 0, expires_at |-> 0, revoked |-> FALSE, use_count |-> 0]
NoCreds == [videoId |-> "", password |-> ""]
NoVerResp ==
  [status |-> 0, json |-> FALSE, error |-> "", valid |-> FALSE, revoked |-> FALSE,
   expired |-> FALSE, creds |-> NoCreds]
IdleVer ==
  [pc |-> "idle", code |-> << >>, found |-> FALSE, accessCode |-> NoCodeRow,
   at |-> 0, vimeo |-> NoCreds, resp |-> NoVerResp]

\* a rotation invocation's locals; saved is the id of the row it inserted
IdleRot ==
  [pc |-> "idle", videoId |-> "", password |-> "", vimeoUpdated |-> FALSE,
   vimeoError |-> FALSE, saved |-> 0, resp |-> [status |-> 0, json |-> FALSE]]

\* the scheduled job's locals; saved is the id of the row it inserted (history)
IdleSched ==
  [pc |-> "idle", videoId |-> "", password |-> "", vimeoUpdated |-> FALSE,
   saved |-> 0, resp |-> [status |-> 0, json |-> FALSE]]

\* migrations/007 inserts the default schedule row: enabled = false, last_run NULL
DefaultSchedule == { [enabled |-> FALSE, last_run |-> NULL] }

\* a report invocation's locals.  kind is the handler: the member absence report
\* ("absences") or GET attendance ("attendance").  The query parameters, the time
\* zone of the process (tz), the rows of the attendance queries, and the table as
\* it was at the first query of the absence report (history)
NoSummary == [totalServicesInPeriod |-> 0, totalAttended |-> 0, totalAbsences |-> 0]
IdleRep ==
  [pc |-> "idle", kind |-> "", memberId |-> "", fromDate |-> << >>, toDate |-> << >>,
   serviceType |-> "", tz |-> "",
   allServices |-> {}, attended |-> {}, before |-> {}, rows |-> {},
   resp |-> [status |-> 0, json |-> FALSE, error |-> FALSE,
             summary |-> NoSummary, absences |-> {}, records |-> {}]]

\* a notification batch's locals: the handler, the method asked for, the member
\* rows selected, the index of the member being served, the results counters,
\* and the sends attempted so far (history)
NoResults == [emailSent |-> 0, emailFailed |-> 0, smsSent |-> 0, smsFailed |-> 0, skipped |-> 0]
IdleNtf ==
  [pc |-> "idle", handler |-> "", method |-> "", members |-> << >>, i |-> 0,
   results |-> NoResults, emailAttempts |-> 0, smsAttempts |-> 0,
   resp |-> [status |-> 0, json |-> FALSE, error |-> FALSE, total |-> 0, results |-> NoResults]]

\* a users invocation's locals: the method, the request's fields in use, the
\* admin count read (adminCount) and the answer
IdleUsr ==
  [pc |-> "idle", method |-> "", userId |-> 0, username |-> << >>, isAdmin |-> FALSE,
   adminCount |-> 0,
   resp |-> [status |-> 0, json |-> FALSE, success |-> FALSE, users |-> {}]]

Init ==
  /\ env \in Envs
  /\ users = {}
  /\ userSeq = 0
  /\ usr = [p \in Procs |-> IdleUsr]
  /\ now = 0
  /\ attendance = {}
  /\ lastList = [pr \in Pairs |-> {}]
  /\ held = 0
  /\ rec = [p \in Procs |-> IdleRec]
  /\ checkins = {}
  /\ vimeo = {}
  /\ codes = {}
  /\ sms = {}
  /\ valLog = << >>
  /\ abs = [p \in Procs |-> IdleAbs]
  /\ ver = [p \in Procs |-> IdleVer]
  /\ rot = IdleRot
  /\ schedule = DefaultSchedule
  /\ sched = IdleSched
  /\ rep = IdleRep
  /\ ntf = IdleNtf

(***************************************************************************)
(* The attendance recorder: POST attendance (recordAttendance).            *)
(***************************************************************************)

\* date.split('T')[0]: the text before the first "T"
RECURSIVE SplitT(_)
SplitT(s) ==
  IF s = << >> \/ Head(s) = "T" THEN << >> ELSE <<Head(s)>> \o SplitT(Tail(s))

\* the guard of the 400 answer: !date || !serviceType || !Array.isArray(attendeeIds)
MissingFields(b) ==
  \/ b.date = << >>
  \/ b.serviceType = ""
  \/ ~b.isArray

\* what the invocation's own connection reads: committed rows and its staged writes
OwnView(p) == (attendance \ rec[p].txDel) \cup rec[p].txIns

\* what any other connection reads: committed rows only
ReaderView(d, s) == RowsOf(attendance, d, s)

\* DELETE FROM attendance WHERE date = $1 AND service_type = $2
DeleteNothing(view, d, s) == {}
DeleteWholeDate(view, d, s) == { r \in view : r.date = d }
DeleteTargets(view, d, s) == RowsOf(view, d, s)

\* the VALUES list of the bulk INSERT: one (date, service_type, id, TRUE) per array entry
InsertRows(d, s, ids) == { Row(d, s, ids[i]) : i \in 1..Len(ids) }

\* the rows an ON CONFLICT (date, service_type, member_id) arbiter finds for new rows
ConflictsOnMember(view, new) ==
  { r \in view : \E n \in new : n.member_id = r.member_id }
Conflicts(view, new) ==
  { r \in view : \E n \in new : /\ n.date = r.date
                                /\ n.service_type = r.service_type
                                /\ n.member_id = r.member_id }

\* the store rejects the INSERT: a member_id outside members (foreign key), or one
\* key proposed twice in a single ON CONFLICT DO UPDATE command
InsertRejected(ids) ==
  \/ \E i \in 1..Len(ids) : ids[i] \notin Members
  \/ Cardinality(Range(ids)) < Len(ids)

\* BEGIN: the connection enters a transaction block
BeginAutocommit(ok) == "none"
BeginResult(ok) == IF ok THEN "open" ELSE "none"

\* a write of one statement: staged inside a transaction block, immediate outside
Stage(p, del, ins, next, cnt) ==
  IF rec[p].tx = "open"
  THEN /\ rec' = [rec EXCEPT ![p].txDel = (@ \cup (del \cap attendance)),
                             ![p].txIns = (@ \ del) \cup ins,
                             ![p].deleted = cnt,
                             ![p].pc = next]
       /\ UNCHANGED attendance
  ELSE /\ attendance' = (attendance \ del) \cup ins
       /\ rec' = [rec EXCEPT ![p].deleted = cnt, ![p].pc = next]

\* a statement fails and control passes to the catch block: inside a transaction
\* block the block is aborted and the store discards what it staged
Fail(p, what) ==
  rec' = [rec EXCEPT ![p].pc = "rollback",
                     ![p].failed = what,
                     ![p].body = Malformed,
                     ![p].ids = << >>,
                     ![p].deleted = 0,
                     ![p].txDel = {},
                     ![p].txIns = {},
                     ![p].tx = IF @ = "open" THEN "aborted" ELSE @]

\* lines 25-37: preflight, method and configuration checks
RecReceive(p, method, body) ==
  /\ rec[p].pc = "idle"
  /\ rec' = [rec EXCEPT ![p] =
       IF method = "OPTIONS" THEN [IdleRec EXCEPT !.pc = "done", !.resp = Preflight]
       ELSE IF method # "POST" THEN [IdleRec EXCEPT !.pc = "done", !.resp = Respond(405, 0, 0)]
       ELSE IF ~env.db THEN [IdleRec EXCEPT !.pc = "done", !.resp = Respond(503, 0, 0)]
       ELSE [IdleRec EXCEPT !.pc = "connect", !.body = body]]
  /\ UNCHANGED <<env, userVars, codeVars, ntf, rep, attendance, lastList, held>>

\* a request is served while no other invocation of the recorder is in flight
RecReceiveAlone(p, method, body) ==
  /\ p = SeqProc
  /\ \A q \in Procs : rec[q].pc = "idle"
  /\ RecReceive(p, method, body)

\* line 39: const client = await pool.connect(), outside the try block
RecConnect(p) ==
  /\ rec[p].pc = "connect"
  /\ \E ok \in BOOLEAN :
       IF ok
       THEN /\ held' = held + 1
            /\ rec' = [rec EXCEPT ![p].pc = "validate"]
       ELSE /\ rec' = [rec EXCEPT ![p].pc = "done", ![p].resp = Uncaught]
            /\ UNCHANGED held
  /\ UNCHANGED <<env, userVars, codeVars, ntf, rep, attendance, lastList>>

\* lines 42-51: parse, validate, normalise the date
RecValidate(p) ==
  /\ rec[p].pc = "validate"
  /\ LET b == rec[p].body IN
       IF ~b.parses THEN Fail(p, "parse")
       ELSE IF MissingFields(b)
       THEN rec' = [rec EXCEPT ![p].pc = "release", ![p].resp = Respond(400, 0, 0)]
       ELSE rec' = [rec EXCEPT ![p].pc = "begin",
                               ![p].body = Malformed,
                               ![p].date = SplitT(b.date),
                               ![p].serviceType = b.serviceType,
                               ![p].ids = b.attendeeIds,
                               ![p].before = ReaderView(SplitT(b.date), b.serviceType)]
  /\ UNCHANGED <<env, userVars, codeVars, ntf, rep, attendance, lastList, held>>

\* line 54: await client.query('BEGIN')
RecBegin(p) ==
  /\ rec[p].pc = "begin"
  /\ \E ok \in BOOLEAN :
       IF ok
       THEN rec' = [rec EXCEPT ![p].pc = "delete", ![p].tx = BeginResult(ok)]
       ELSE Fail(p, "begin")
  /\ UNCHANGED <<env, userVars, codeVars, ntf, rep, attendance, lastList, held>>

\* lines 58-61: the DELETE of the service occurrence's rows
RecDelete(p) ==
  /\ rec[p].pc = "delete"
  /\ LET d == rec[p].date
         gone == DeleteTargets(OwnView(p), d, rec[p].serviceType)
     IN \E ok \in BOOLEAN :
          IF ok /\ d \in ValidDates
          THEN Stage(p, gone, {}, IF Len(rec[p].ids) > 0 THEN "insert" ELSE "commit",
                     Cardinality(gone))
          ELSE Fail(p, "delete") /\ UNCHANGED attendance
  /\ UNCHANGED <<env, userVars, codeVars, ntf, rep, lastList, held>>

\* lines 68-86: the bulk INSERT .. ON CONFLICT DO UPDATE SET present = TRUE
RecInsert(p) ==
  /\ rec[p].pc = "insert"
  /\ LET new == InsertRows(rec[p].date, rec[p].serviceType, rec[p].ids)
     IN \E ok \in BOOLEAN :
          IF ok /\ ~InsertRejected(rec[p].ids)
          THEN Stage(p, Conflicts(OwnView(p), new), new, "commit", rec[p].deleted)
          ELSE Fail(p, "insert") /\ UNCHANGED attendance
  /\ UNCHANGED <<env, userVars, codeVars, ntf, rep, lastList, held>>

\* lines 89-97: COMMIT, then the 200 answer
RecCommit(p) ==
  /\ rec[p].pc = "commit"
  /\ \E ok \in BOOLEAN :
       IF ok
       THEN /\ attendance' = (attendance \ rec[p].txDel) \cup rec[p].txIns
            /\ lastList' = [lastList EXCEPT ![<<rec[p].date, rec[p].serviceType>>] = Range(rec[p].ids)]
            /\ rec' = [rec EXCEPT ![p].pc = "release", ![p].tx = "none",
                                  ![p].txDel = {}, ![p].txIns = {},
                                  ![p].resp = Respond(200, Len(rec[p].ids), rec[p].deleted)]
       ELSE /\ Fail(p, "commit")
            /\ UNCHANGED <<attendance, lastList>>
  /\ UNCHANGED <<env, userVars, codeVars, ntf, rep, held>>

\* lines 99-106: the catch block: ROLLBACK, then the 500 answer.  When the ROLLBACK
\* itself fails the catch block throws; the store ends the block with the connection
RecRollback(p) ==
  /\ rec[p].pc = "rollback"
  /\ \E ok \in BOOLEAN :
       rec' = [rec EXCEPT ![p].pc = "release", ![p].tx = "none",
                          ![p].txDel = {}, ![p].txIns = {},
                          ![p].resp = IF ok THEN Respond(500, 0, 0) ELSE Uncaught]
  /\ UNCHANGED <<env, userVars, codeVars, ntf, rep, attendance, lastList, held>>

\* client.release(): the connection goes back to the pool
KeptCheckedOut(h) == h
Released(h) == h - 1

\* lines 107-109: finally { client.release() }
RecRelease(p) ==
  /\ rec[p].pc = "release"
  /\ held' = Released(held)
  /\ rec' = [rec EXCEPT ![p].pc = "done"]
  /\ UNCHANGED <<env, userVars, codeVars, ntf, rep, attendance, lastList>>

\* the invocation ends; the slot serves the next request
RecFinish(p) ==
  /\ rec[p].pc = "done"
  /\ rec' = [rec EXCEPT ![p] = IdleRec]
  /\ UNCHANGED <<env, userVars, codeVars, ntf, rep, attendance, lastList, held>>

RecStep(p) ==
  \/ RecConnect(p)
  \/ RecValidate(p)
  \/ RecBegin(p)
  \/ RecDelete(p)
  \/ RecInsert(p)
  \/ RecCommit(p)
  \/ RecRollback(p)
  \/ RecRelease(p)
  \/ RecFinish(p)

\* recorder requests served one after another
AttNext ==
  \E p \in Procs :
    \/ \E method \in Methods :
         \E body \in (IF method = "POST" THEN Bodies ELSE {Malformed}) :
           RecReceiveAlone(p, method, body)
    \/ RecStep(p)

\* the recorder reads only DATABASE_URL of the environment
AttInit == Init /\ env \in {EnvFull, EnvNoDb}

AttSpec == AttInit /\ [][AttNext]_vars

(***************************************************************************)
(* Recorder requests that overlap, under the store's default isolation     *)
(* (READ COMMITTED): a statement reads the rows committed when it runs and *)
(* its own staged writes, and waits while another open transaction holds   *)
(* a row it would write.                                                   *)
(***************************************************************************)
ConBodies ==
  [parses : {TRUE}, date : { <<"2024-05-05">> }, serviceType : {"Sunday Morning"},
   isArray : {TRUE}, attendeeIds : { << >>, <<"m1">>, <<"m2">>, <<"m1", "m2">> }]

\* the rows an open transaction has written and keeps locked until it ends
LockedBy(q) == IF rec[q].tx = "open" THEN rec[q].txDel \cup rec[q].txIns ELSE {}

\* the statement slot p is about to run waits for a row lock or a unique-index entry
Waits(p) ==
  \E q \in Procs \ {p} :
    \/ /\ rec[p].pc = "delete"
       /\ DeleteTargets(attendance, rec[p].date, rec[p].serviceType) \cap LockedBy(q) # {}
    \/ /\ rec[p].pc = "insert"
       /\ Conflicts(LockedBy(q), InsertRows(rec[p].date, rec[p].serviceType, rec[p].ids)) # {}

\* the DELETE and the INSERT run once they need not wait
ConDelete(p) == ~Waits(p) /\ RecDelete(p)
ConInsert(p) == ~Waits(p) /\ RecInsert(p)

ConStep(p) ==
  \/ RecConnect(p)
  \/ RecValidate(p)
  \/ RecBegin(p)
  \/ ConDelete(p)
  \/ ConInsert(p)
  \/ RecCommit(p)
  \/ RecRollback(p)
  \/ RecRelease(p)
  \/ RecFinish(p)

ConNext ==
  \/ \E p \in Procs, body \in ConBodies : RecReceive(p, "POST", body)
  \/ \E p \in Procs : ConStep(p)

\* the recorder reads only DATABASE_URL, which is set
ConInit == Init /\ env = EnvFull

ConSpec == ConInit /\ [][ConNext]_vars

(***************************************************************************)
(* Properties of the attendance recorder, checked under AttSpec.           *)
(***************************************************************************)

\* the invocation in slot p has answered (the answer is kept until the slot is reused)
Answered(p) == rec[p].pc \in {"release", "done"}

\* the member identifiers that have a row for a service occurrence
MembersOf(d, s) == { r.member_id : r \in ReaderView(d, s) }

\* C1: when recordAttendance for (date, serviceType) with present-list P has
\* returned its 200 answer, the rows stored for that pair are exactly one row per
\* member of P, each with present = TRUE, and there is no row for anyone else.
C1_RecordedExactlyPresentList ==
  \A p \in Procs :
    (Answered(p) /\ rec[p].resp.status = 200 /\ rec[p].resp.json)
      => /\ ReaderView(rec[p].date, rec[p].serviceType)
              = { Row(rec[p].date, rec[p].serviceType, m) : m \in Range(rec[p].ids) }
         /\ \A r \in ReaderView(rec[p].date, rec[p].serviceType) : r.present
         /\ Cardinality(ReaderView(rec[p].date, rec[p].serviceType))
              = Cardinality(Range(rec[p].ids))

\* C1 witness: rows for m1 and m2 were stored, the call with [m1] returned 200
C1_Witness ==
  \E p \in Procs :
    /\ rec[p].pc = "done" /\ rec[p].resp.status = 200
    /\ rec[p].ids = <<"m1">>
    /\ { r.member_id : r \in rec[p].before } = {"m1", "m2"}

\* C2: the member set stored for a pair is a function of the last committed call
\* for that pair alone: in every state it equals the identifiers of that call's
\* present-list (and is empty for a pair no call has committed), whatever rows
\* were stored by earlier calls.
C2_FinalSetIsLastList ==
  \A pr \in Pairs : MembersOf(pr[1], pr[2]) = lastList[pr]

\* C2 witness: the list {m1, m2} was stored and is resubmitted; the set is unchanged
C2_Witness ==
  \E p \in Procs :
    /\ rec[p].pc = "done" /\ rec[p].resp.status = 200
    /\ rec[p].ids = <<"m2", "m1">>
    /\ { r.member_id : r \in rec[p].before } = {"m1", "m2"}
    /\ ReaderView(rec[p].date, rec[p].serviceType) = rec[p].before
    /\ rec[p].resp.deletedPrevious = 2

\* C3: from the moment a call has fixed its pair until it commits, and for good
\* when a statement fails, every other connection reads for that pair exactly the
\* rows stored before the call; after a failure the transaction block is closed
\* and nothing it staged remains.
C3_FailureLeavesRowsUntouched ==
  \A p \in Procs :
    /\ (rec[p].pc \in {"begin", "delete", "insert", "commit", "rollback"}
          \/ (Answered(p) /\ rec[p].failed # ""))
         => ReaderView(rec[p].date, rec[p].serviceType) = rec[p].before
    /\ Answered(p) => (rec[p].tx = "none" /\ rec[p].txDel = {} /\ rec[p].txIns = {})

\* C3 witness: rows were stored, the DELETE and the INSERT ran, the COMMIT failed
\* and the 500 answer was returned
C3_Witness ==
  \E p \in Procs :
    /\ rec[p].pc = "done" /\ rec[p].failed = "commit" /\ rec[p].resp.status = 500
    /\ rec[p].resp.json
    /\ rec[p].before # {}

\* C3 witness of the intermediate state: old rows deleted, new rows staged, nothing
\* of it visible to other connections
C3_Intermediate ==
  \E p \in Procs :
    /\ rec[p].pc = "insert"
    /\ rec[p].before # {}
    /\ RowsOf(OwnView(p), rec[p].date, rec[p].serviceType) = {}

\* the steps at which an invocation holds the connection pool.connect() gave it
Holding == {"validate", "begin", "delete", "insert", "commit", "rollback", "release"}

\* C18: every connection the recorder acquires is released exactly once on every
\* exit path: the connections checked out are those of the invocations between
\* pool.connect() and client.release(), and an invocation that has returned or
\* thrown (the 400 return, the commit, every error path) holds none.
C18_ConnectionReleasedOnEveryPath ==
  /\ held = Cardinality({ p \in Procs : rec[p].pc \in Holding })
  /\ \A p \in Procs : rec[p].resp.status # 0 => rec[p].pc \in {"release", "done"}
  /\ (\A p \in Procs : rec[p].pc \in {"idle", "connect", "done"}) => held = 0

\* C18 witness: the catch block's ROLLBACK failed, the handler threw, and the
\* connection is back in the pool
C18_Witness ==
  \E p \in Procs :
    /\ rec[p].pc = "done" /\ rec[p].failed # "" /\ rec[p].resp = Uncaught
    /\ held = 0

\* C18 witnesses: the 400 return and the commit
C18_After400 ==
  \E p \in Procs : rec[p].pc = "done" /\ rec[p].resp.status = 400 /\ held = 0
C18_AfterCommit ==
  \E p \in Procs : rec[p].pc = "done" /\ rec[p].resp.status = 200 /\ rec[p].resp.json /\ held = 0

\* C19 as stated: every handler invocation ends with a JSON body, and on a
\* failure with a JSON object holding an error string and a 4xx/5xx status,
\* also when no connection can be obtained and when the ROLLBACK fails (the
\* CORS preflight answer apart).
C19_AlwaysJsonAnswer ==
  /\ \A p \in Procs :
       (rec[p].pc = "done" /\ rec[p].resp # Preflight)
         => /\ rec[p].resp.json
            /\ rec[p].resp.status # 200 => (rec[p].resp.error /\ rec[p].resp.status >= 400)
  /\ sched.pc = "done" => sched.resp.json

\* C20 as stated: a request rejected with 400 for a missing or malformed
\* required field is rejected before any store access: the invocation acquires
\* no connection.
C20_RejectedBeforeStoreAccess ==
  \A p \in Procs :
    /\ rec[p].resp.status = 400 => rec[p].pc \notin Holding
    /\ (rec[p].pc \in Holding /\ rec[p].body.parses) => ~MissingFields(rec[p].body)

(***************************************************************************)
(* The member absence report: GET member-absences.                         *)
(***************************************************************************)

\* the order of the calendar dates (date >= $1 AND date <= $2)
DayNumber(d) == IF d = <<"2024-05-05">> THEN 5 ELSE 12
InRange(d, from, to) == DayNumber(from) <= DayNumber(d) /\ DayNumber(d) <= DayNumber(to)

\* time zones of the process: the driver reads a DATE as local midnight
TimeZones == {"utc", "east"}

\* date.toISOString().split('T')[0]: the UTC day of local midnight, which east of
\* Greenwich is the day before
IsoDay(d, tz) ==
  IF tz = "utc" THEN d
  ELSE IF d = <<"2024-05-05">> THEN <<"2024-05-04">> ELSE <<"2024-05-11">>

\* the key of a service: `${isoDay}|${service_type}`
KeyByDateOnly(r, tz) == <<IsoDay(r.date, tz), "">>
ServiceKey(r, tz) == <<IsoDay(r.date, tz), r.service_type>>

\* lines 63-68: SELECT DISTINCT date, service_type FROM attendance WHERE the date
\* is in the range
ServicesIn(tbl, from, to) ==
  { [date |-> r.date, service_type |-> r.service_type] :
      r \in { q \in tbl : InRange(q.date, from, to) } }

\* lines 73-77: the member's rows with present = true in the range
AttendedIn(tbl, m, from, to) ==
  { [date |-> r.date, service_type |-> r.service_type] :
      r \in { q \in tbl : q.member_id = m /\ q.present /\ InRange(q.date, from, to) } }

\* lines 79-87: the services whose key is not in attendedSet
Absences(allServices, attended, tz) ==
  LET attendedSet == { ServiceKey(r, tz) : r \in attended }
  IN { sv \in allServices : ServiceKey(sv, tz) \notin attendedSet }

\* lines 119-135: the absence records of the answer
DetailedAbsences(absences, tz) ==
  { [date |-> IsoDay(a.date, tz), serviceType |-> a.service_type] : a \in absences }

RepRespond(code) ==
  [status |-> code, json |-> TRUE, error |-> (code >= 400),
   summary |-> NoSummary, absences |-> {}, records |-> {}]

RepAnswer(resp) == rep' = [rep EXCEPT !.pc = "done", !.resp = resp]

\* the query parameters a request carries
RepInputs ==
  [memberId : {"m1"}, fromDate : { <<"2024-05-05">> }, toDate : ValidDates] \cup
  { [memberId |-> "m1", fromDate |-> <<"2024-05-12">>, toDate |-> <<"2024-05-05">>],
    [memberId |-> "", fromDate |-> <<"2024-05-05">>, toDate |-> <<"2024-05-12">>],
    [memberId |-> "zz", fromDate |-> <<"2024-05-05">>, toDate |-> <<"2024-05-12">>],
    [memberId |-> "m1", fromDate |-> << >>, toDate |-> <<"2024-05-12">>],
    [memberId |-> "m1", fromDate |-> <<"2024-05-05">>, toDate |-> << >>] }

\* lines 25-47: preflight, method, configuration and parameter checks
RepReceive(method, q, tz) ==
  /\ rep.pc = "idle"
  /\ rep' =
       IF method = "OPTIONS"
       THEN [IdleRep EXCEPT !.pc = "done", !.resp.status = 200]
       ELSE IF method # "GET" THEN [IdleRep EXCEPT !.pc = "done", !.resp = RepRespond(405)]
       ELSE IF ~env.db THEN [IdleRep EXCEPT !.pc = "done", !.resp = RepRespond(503)]
       ELSE IF q.memberId = "" \/ q.fromDate = << >> \/ q.toDate = << >>
       THEN [IdleRep EXCEPT !.pc = "done", !.resp = RepRespond(400)]
       ELSE [IdleRep EXCEPT !.pc = "member", !.kind = "absences", !.memberId = q.memberId,
                            !.fromDate = q.fromDate, !.toDate = q.toDate, !.tz = tz]
  /\ UNCHANGED <<env, userVars, codeVars, ntf, attendance, lastList, held, rec>>

\* lines 50-59: the member lookup
RepMember ==
  /\ rep.pc = "member"
  /\ \E ok \in BOOLEAN :
       IF ~ok THEN RepAnswer(RepRespond(500))
       ELSE IF rep.memberId \notin Members THEN RepAnswer(RepRespond(404))
       ELSE rep' = [rep EXCEPT !.pc = "services"]
  /\ UNCHANGED <<env, userVars, codeVars, ntf, attendance, lastList, held, rec>>

\* lines 63-70: the services that occurred, read from the committed rows
RepServices ==
  /\ rep.pc = "services"
  /\ \E ok \in BOOLEAN :
       IF ok
       THEN rep' = [rep EXCEPT !.pc = "attended",
                               !.allServices = ServicesIn(attendance, rep.fromDate, rep.toDate),
                               !.before = attendance]
       ELSE RepAnswer(RepRespond(500))
  /\ UNCHANGED <<env, userVars, codeVars, ntf, attendance, lastList, held, rec>>

\* lines 73-87: the services the member attended
RepAttended ==
  /\ rep.pc = "attended"
  /\ \E ok \in BOOLEAN :
       IF ok
       THEN rep' = [rep EXCEPT !.pc = "checkins",
                               !.attended = AttendedIn(attendance, rep.memberId,
                                                       rep.fromDate, rep.toDate),
                               !.before = IF @ = attendance THEN @ ELSE {}]
       ELSE RepAnswer(RepRespond(500))
  /\ UNCHANGED <<env, userVars, codeVars, ntf, attendance, lastList, held, rec>>

\* lines 91-178: the member's absentee check-ins are read (every member's phone has
\* ten digits), then the summary is computed and the 200 answer built
RepSummary ==
  /\ rep.pc = "checkins"
  /\ \E ok \in BOOLEAN :
       IF ok
       THEN LET absences == Absences(rep.allServices, rep.attended, rep.tz)
                totalServicesInPeriod == Cardinality(rep.allServices)
                totalAbsences == Cardinality(absences)
            IN rep' = [rep EXCEPT
                 !.pc = "done",
                 !.resp = [status |-> 200, json |-> TRUE, error |-> FALSE, records |-> {},
                           summary |-> [totalServicesInPeriod |-> totalServicesInPeriod,
                                        totalAttended |-> totalServicesInPeriod - totalAbsences,
                                        totalAbsences |-> totalAbsences],
                           absences |-> DetailedAbsences(absences, rep.tz)]]
       ELSE RepAnswer(RepRespond(500))
  /\ UNCHANGED <<env, userVars, codeVars, ntf, attendance, lastList, held, rec>>

\* the invocation ends
RepFinish ==
  /\ rep.pc = "done"
  /\ rep' = IdleRep
  /\ UNCHANGED <<env, userVars, codeVars, ntf, attendance, lastList, held, rec>>

RepStep ==
  \/ RepMember
  \/ RepServices
  \/ RepAttended
  \/ RepSummary
  \/ RepFinish

\* the attendance calls made while reports are generated
RepBodies ==
  [parses : {TRUE}, date : { <<"2024-05-05">> }, serviceType : {"Wednesday Evening"},
   isArray : {TRUE}, attendeeIds : { <<"m1">>, <<"m2">> }] \cup
  { [parses |-> TRUE, date |-> <<"2024-05-05">>, serviceType |-> "Sunday Morning",
     isArray |-> TRUE, attendeeIds |-> <<"m1">>],
    [parses |-> TRUE, date |-> <<"2024-05-12">>, serviceType |-> "Sunday Morning",
     isArray |-> TRUE, attendeeIds |-> <<"m2">>] }

\* reports generated while attendance is recorded
RepNext ==
  \/ \E method \in Methods, q \in RepInputs, tz \in TimeZones : RepReceive(method, q, tz)
  \/ RepStep
  \/ \E body \in RepBodies : RecReceiveAlone(SeqProc, "POST", body)
  \/ RecStep(SeqProc)

RepSpec == AttInit /\ [][RepNext]_vars

\* the report's answer is 200
Reported ==
  rep.pc = "done" /\ rep.kind = "absences" /\ rep.resp.status = 200 /\ rep.resp.json

\* C14: in every 200 answer of the member absence report, attended + absent =
\* occurred, where occurred is the number of (date, service_type) pairs the
\* services query returned, attended the number of those on which the member has
\* a present row and absent the number of absence records; the absence list is
\* the set difference; when no attendance was committed between the two
\* queries these are the pairs of the table.
C14_AttendedPlusAbsentIsOccurred ==
  Reported =>
    LET occurred == rep.allServices
        attendedOfThose == rep.allServices \cap rep.attended
        sm == rep.resp.summary
    IN /\ sm.totalServicesInPeriod = Cardinality(occurred)
       /\ sm.totalAttended = Cardinality(attendedOfThose)
       /\ sm.totalAbsences = Cardinality(rep.resp.absences)
       /\ sm.totalAttended + sm.totalAbsences = sm.totalServicesInPeriod
       /\ rep.resp.absences = DetailedAbsences(occurred \ rep.attended, rep.tz)
       /\ rep.before # {} =>
            /\ occurred = ServicesIn(rep.before, rep.fromDate, rep.toDate)
            /\ rep.attended = AttendedIn(rep.before, rep.memberId, rep.fromDate, rep.toDate)
            /\ rep.attended \subseteq occurred

\* C14 witness: a report over services the member attended and services the
\* member missed, one of them on a date the member attended another service
C14_Witness ==
  /\ Reported
  /\ rep.resp.summary.totalAttended >= 1
  /\ rep.resp.summary.totalAbsences >= 1
  /\ \E a \in rep.allServices \ rep.attended :
       \E b \in rep.attended : a.date = b.date

(***************************************************************************)
(* GET attendance: the attendance of each service, with the absent members. *)
(***************************************************************************)

\* the filters a request carries; << >> and "" are filters left out
NoFilter == [fromDate |-> << >>, toDate |-> << >>, serviceType |-> ""]
GetInputs ==
  { NoFilter,
    [fromDate |-> <<"2024-05-05">>, toDate |-> <<"2024-05-05">>,
     serviceType |-> "Sunday Morning"] }

\* get-attendance.js lines 37-74: the rows of attendance JOIN members the filters
\* let through
AttendanceRows(tbl, q) ==
  { r \in tbl :
      /\ r.member_id \in Members
      /\ q.fromDate = << >> \/ DayNumber(q.fromDate) <= DayNumber(r.date)
      /\ q.toDate = << >> \/ DayNumber(r.date) <= DayNumber(q.toDate)
      /\ q.serviceType = "" \/ r.service_type = q.serviceType }

\* get-attendance.js lines 77-126: one record per (date, service_type) of the rows
\* read, with the members present and every other active member as absent
EmptyServicesListed(rows, allMembers) ==
  { [date |-> pr[1], service_type |-> pr[2],
     present |-> { r.member_id : r \in { q \in RowsOf(rows, pr[1], pr[2]) : q.present } },
     absent |-> allMembers \ { r.member_id : r \in { q \in RowsOf(rows, pr[1], pr[2]) : q.present } }] :
      pr \in Pairs }
ByService(rows, allMembers) ==
  { [date |-> r.date, service_type |-> r.service_type,
     present |-> { x.member_id : x \in { q \in RowsOf(rows, r.date, r.service_type) : q.present } },
     absent |-> allMembers \
                  { x.member_id : x \in { q \in RowsOf(rows, r.date, r.service_type) : q.present } }] :
      r \in rows }

\* get-attendance.js lines 25-35: preflight and configuration checks; every other
\* method is served
GetReceive(method, q) ==
  /\ rep.pc = "idle"
  /\ rep' =
       IF method = "OPTIONS"
       THEN [IdleRep EXCEPT !.pc = "done", !.resp.status = 200]
       ELSE IF ~env.db THEN [IdleRep EXCEPT !.pc = "done", !.resp = RepRespond(503)]
       ELSE [IdleRep EXCEPT !.pc = "rows", !.kind = "attendance", !.fromDate = q.fromDate,
                            !.toDate = q.toDate, !.serviceType = q.serviceType]
  /\ UNCHANGED <<env, userVars, codeVars, ntf, attendance, lastList, held, rec>>

\* get-attendance.js lines 74-105: the attendance rows are read
GetRows ==
  /\ rep.pc = "rows"
  /\ \E ok \in BOOLEAN :
       IF ok
       THEN rep' = [rep EXCEPT !.pc = "members",
                               !.rows = AttendanceRows(attendance,
                                          [fromDate |-> rep.fromDate, toDate |-> rep.toDate,
                                           serviceType |-> rep.serviceType])]
       ELSE RepAnswer(RepRespond(500))
  /\ UNCHANGED <<env, userVars, codeVars, ntf, attendance, lastList, held, rec>>

\* get-attendance.js lines 108-134: the active members are read and the answer built
GetMembers ==
  /\ rep.pc = "members"
  /\ \E ok \in BOOLEAN :
       IF ok
       THEN RepAnswer([RepRespond(200) EXCEPT !.records = ByService(rep.rows, Members)])
       ELSE RepAnswer(RepRespond(500))
  /\ UNCHANGED <<env, userVars, codeVars, ntf, attendance, lastList, held, rec>>

\* the attendance calls made while the reports are read: lists with and without
\* members for one service, and one for another service
GetBodies ==
  [parses : {TRUE}, date : { <<"2024-05-05">> }, serviceType : {"Sunday Morning"},
   isArray : {TRUE}, attendeeIds : { << >>, <<"m1">> }] \cup
  { [parses |-> TRUE, date |-> <<"2024-05-05">>, serviceType |-> "Wednesday Evening",
     isArray |-> TRUE, attendeeIds |-> <<"m2">>] }

\* the absence report asked for while the reports are read
GetReportInputs ==
  { [memberId |-> "m1", fromDate |-> <<"2024-05-05">>, toDate |-> <<"2024-05-12">>] }

\* both reports read while attendance is recorded
GetNext ==
  \/ \E method \in Methods, q \in GetInputs : GetReceive(method, q)
  \/ \E q \in GetReportInputs : RepReceive("GET", q, "utc")
  \/ GetRows
  \/ GetMembers
  \/ RepStep
  \/ \E body \in GetBodies : RecReceiveAlone(SeqProc, "POST", body)
  \/ RecStep(SeqProc)

GetSpec == AttInit /\ [][GetNext]_vars

\* an attendance call with an empty list has committed and answered 200
RecordedEmpty(p) ==
  /\ rec[p].pc = "done" /\ rec[p].resp.status = 200 /\ rec[p].resp.json
  /\ rec[p].ids = << >>

\* GET attendance answered 200 from rows that are those the table holds now
AttendanceRead ==
  /\ rep.pc = "done" /\ rep.kind = "attendance" /\ rep.resp.status = 200 /\ rep.resp.json
  /\ rep.rows = AttendanceRows(attendance, [fromDate |-> rep.fromDate, toDate |-> rep.toDate,
                                             serviceType |-> rep.serviceType])

\* the absence report answered 200 from services that are those the table holds now
AbsencesRead ==
  /\ Reported
  /\ rep.allServices = ServicesIn(attendance, rep.fromDate, rep.toDate)

\* C21 as stated: after recordAttendance with an empty list for (date, serviceType),
\* GET attendance reports the occurrence with every active member absent, and the
\* member absence report counts it as an occurred service the member missed.
C21_EmptyListAllAbsent ==
  \A p \in Procs :
    RecordedEmpty(p) =>
      /\ AttendanceRead
           => \E sv \in rep.resp.records :
                /\ sv.date = rec[p].date /\ sv.service_type = rec[p].serviceType
                /\ sv.present = {} /\ sv.absent = Members
      /\ AbsencesRead
           => \E a \in rep.resp.absences :
                a.date = rec[p].date /\ a.serviceType = rec[p].serviceType

\* C21: after recordAttendance with an empty list for (date, serviceType) the
\* table holds no row of the occurrence; GET attendance then has no record of
\* it, and the member absence report neither counts it as occurred nor lists
\* it as an absence.  Every record GET attendance does return lists as absent
\* the active members that are not present.
C21_EmptyListLeavesNoTrace ==
  /\ \A p \in Procs :
       RecordedEmpty(p) =>
         /\ rec[p].resp.count = 0
         /\ RowsOf(attendance, rec[p].date, rec[p].serviceType) = {}
         /\ AttendanceRead
              => ~\E sv \in rep.resp.records :
                    sv.date = rec[p].date /\ sv.service_type = rec[p].serviceType
         /\ AbsencesRead
              => /\ ~\E sv \in rep.allServices :
                       sv.date = rec[p].date /\ sv.service_type = rec[p].serviceType
                 /\ ~\E a \in rep.resp.absences :
                       a.date = rec[p].date /\ a.serviceType = rec[p].serviceType
  /\ (rep.pc = "done" /\ rep.kind = "attendance")
       => \A sv \in rep.resp.records :
            /\ sv.present # {}
            /\ sv.absent = Members \ sv.present

\* C21 witness: an empty list replaced a recorded list, and GET attendance, read
\* afterwards, lists the other service only
C21_Witness ==
  \E p \in Procs :
    /\ RecordedEmpty(p) /\ rec[p].resp.deletedPrevious >= 1
    /\ AttendanceRead /\ rep.serviceType = ""
    /\ rep.resp.records # {}

\* C21 witness: the absence report read after an empty list was recorded
C21_ReportWitness ==
  \E p \in Procs :
    /\ RecordedEmpty(p) /\ rec[p].resp.deletedPrevious >= 1
    /\ AbsencesRead
    /\ rep.resp.summary.totalServicesInPeriod = 1

(***************************************************************************)
(* The livestream access-code workflow: shared data.                       *)
(***************************************************************************)

\* generateAccessCode's alphabet, the string 'ABCDEFGHJKMNPQRSTUVWXYZ23456789'
Chars ==
  << "A", "B", "C", "D", "E", "F", "G", "H", "J", "K", "M", "N", "P", "Q", "R", "S",
     "T", "U", "V", "W", "X", "Y", "Z", "2", "3", "4", "5", "6", "7", "8", "9" >>

\* the length of an access code
CodeLen == 6

\* the lifetime of an access code, in hours
ExpiryHours == 24

\* the insert attempts of one issuance
MaxAttempts == 10

\* what crypto.randomInt(chars.length) returns in the six rounds of one call of
\* generateAccessCode: the runs of the random source that the model follows
CodeDraws == { <<0, 1, 2, 3, 4, 5>>, <<9, 30, 10, 23, 12, 13>> }

\* generateAccessCode: code += chars.charAt(crypto.randomInt(chars.length)), 6 times
generateAccessCode(draw) == [i \in 1..CodeLen |-> Chars[draw[i] + 1]]

UpperLetters ==
  << "A", "B", "C", "D", "E", "F", "G", "H", "I", "J", "K", "L", "M", "N", "O", "P",
     "Q", "R", "S", "T", "U", "V", "W", "X", "Y", "Z" >>
LowerLetters ==
  << "a", "b", "c", "d", "e", "f", "g", "h", "i", "j", "k", "l", "m", "n", "o", "p",
     "q", "r", "s", "t", "u", "v", "w", "x", "y", "z" >>

\* String.prototype.toUpperCase, and toLowerCase for the inputs a viewer may type
UpperChar(c) ==
  IF \E i \in 1..Len(LowerLetters) : LowerLetters[i] = c
  THEN UpperLetters[CHOOSE i \in 1..Len(LowerLetters) : LowerLetters[i] = c]
  ELSE c
LowerChar(c) ==
  IF \E i \in 1..Len(UpperLetters) : UpperLetters[i] = c
  THEN LowerLetters[CHOOSE i \in 1..Len(UpperLetters) : UpperLetters[i] = c]
  ELSE c
AsTyped(str) == str
toUpperCase(str) == [i \in 1..Len(str) |-> UpperChar(str[i])]
toLowerCase(str) == [i \in 1..Len(str) |-> LowerChar(str[i])]

\* phone numbers are strings of characters
DigitChars == {"0", "1", "2", "3", "4", "5", "6", "7", "8", "9"}
IsDigit(c) == c \in DigitChars

\* phone.replace(/\D/g, '')
Digits(str) == SelectSeq(str, IsDigit)

\* cleaned.slice(-10)
Last10(str) == IF Len(str) > 10 THEN SubSeq(str, Len(str) - 9, Len(str)) ELSE str

\* formatPhone
formatPhone(phone) ==
  IF phone = << >> THEN << >>
  ELSE LET cleaned == Digits(phone)
       IN IF Len(cleaned) = 10 THEN <<"+", "1">> \o cleaned
          ELSE <<"+">> \o cleaned

\* members.phone of the directory's rows: "(555) 010-1111" and "555.010.2222"
MemberPhone ==
  [m \in Members |->
     IF m = "m1"
     THEN << "(", "5", "5", "5", ")", " ", "0", "1", "0", "-", "1", "1", "1", "1" >>
     ELSE << "5", "5", "5", ".", "0", "1", "0", ".", "2", "2", "2", "2" >>]

\* the rows the member lookup returns for the last ten digits of the phone typed
EveryMember(last10Digits) == Members
MembersByPhone(last10Digits) ==
  { m \in Members : Last10(Digits(MemberPhone[m])) = last10Digits }

\* rows of vimeo_passwords WHERE active = true ORDER BY created_at DESC LIMIT 1:
\* the rows the query may return first
ActiveRows == { r \in vimeo : r.active }
LatestActive == { r \in ActiveRows : \A q \in ActiveRows : q.created_at <= r.created_at }

\* no invocation of any handler of the workflow is in flight
Quiet ==
  /\ \A p \in Procs : abs[p].pc = "idle" /\ ver[p].pc = "idle"
  /\ rot.pc = "idle"

\* time passes
Tick ==
  /\ now + TickHours <= MaxTime
  /\ now' = now + TickHours
  /\ UNCHANGED <<env, userVars, attVars, schedule, sched, checkins, vimeo, codes, sms, valLog, abs, ver, rot>>

\* an operator revokes a code in the store (no handler writes the column)
AdminRevoke(id) ==
  /\ \E r \in codes : r.id = id /\ ~r.revoked
  /\ codes' = { IF r.id = id THEN [r EXCEPT !.revoked = TRUE] ELSE r : r \in codes }
  /\ UNCHANGED <<env, userVars, attVars, schedule, sched, now, checkins, vimeo, sms, valLog, abs, ver, rot>>

(***************************************************************************)
(* Notification batches: POST notify-absentees and POST broadcast.         *)
(***************************************************************************)

\* most member rows a batch selects
MaxRecipients == 2

\* member rows as the batch reads them: email present or not, and a phone that is
\* missing, has ten digits, or is too short for broadcast
BatchPhones ==
  { << >>,
    << "5", "5", "5", ".", "0", "1", "0", ".", "2", "2", "2", "2" >>,
    << "5", "5", "5", "-", "0", "1", "0", "1" >> }
BatchMembers == [email : BOOLEAN, phone : BatchPhones]

\* bodies of the two handlers: the method asked for ("" is a missing field)
BatchMethods == {"email", "sms", "both", "", "fax"}
BatchHandlers == {"notify", "broadcast"}

NtfRespond(code) ==
  [status |-> code, json |-> TRUE, error |-> (code >= 400), total |-> 0, results |-> NoResults]

\* results.<field>++
FailureUncounted(results, field) == results
Counted(results, field) == [results EXCEPT ![field] = @ + 1]

\* notify-absentees.js lines 99-120, broadcast lines 557-578
NtfReceive(handler, verb, parses, method) ==
  /\ ntf.pc = "idle"
  /\ ntf' =
       IF verb = "OPTIONS" THEN [IdleNtf EXCEPT !.pc = "done", !.resp.status = 200]
       ELSE IF verb # "POST" THEN [IdleNtf EXCEPT !.pc = "done", !.resp = NtfRespond(405)]
       ELSE IF ~env.db THEN [IdleNtf EXCEPT !.pc = "done", !.resp = NtfRespond(503)]
       ELSE IF ~parses THEN [IdleNtf EXCEPT !.pc = "done", !.resp = NtfRespond(500)]
       ELSE IF method \notin {"email", "sms", "both"}
       THEN [IdleNtf EXCEPT !.pc = "done", !.resp = NtfRespond(400)]
       ELSE [IdleNtf EXCEPT !.pc = "select", !.handler = handler, !.method = method]
  /\ UNCHANGED <<env, userVars, codeVars, rep, attendance, lastList, held, rec>>

\* the 200 answer once the loop has served every member
NtfAnswerOrNext(n) ==
  IF n.i > Len(n.members)
  THEN [n EXCEPT !.pc = "done",
                 !.resp = [NtfRespond(200) EXCEPT !.total = Len(n.members),
                                                  !.results = n.results]]
  ELSE n

\* notify-absentees.js lines 127-161, broadcast lines 582-600: the member rows
NtfSelect(rows) ==
  /\ ntf.pc = "select"
  /\ \E ok \in BOOLEAN :
       ntf' = IF ok
              THEN NtfAnswerOrNext([ntf EXCEPT !.pc = "email", !.members = rows, !.i = 1])
              ELSE [ntf EXCEPT !.pc = "done", !.resp = NtfRespond(500)]
  /\ UNCHANGED <<env, userVars, codeVars, rep, attendance, lastList, held, rec>>

\* notify-absentees.js lines 185-206, broadcast lines 614-635: the email of one member
NtfEmail ==
  /\ ntf.pc = "email"
  /\ LET member == ntf.members[ntf.i] IN
       IF ntf.method \in {"email", "both"} /\ member.email
       THEN \E ok \in BOOLEAN :
              ntf' = [ntf EXCEPT !.pc = "sms",
                                 !.emailAttempts = @ + 1,
                                 !.results = IF ok THEN Counted(@, "emailSent")
                                             ELSE Counted(@, "emailFailed")]
       ELSE ntf' = [ntf EXCEPT !.pc = "sms"]
  /\ UNCHANGED <<env, userVars, codeVars, rep, attendance, lastList, held, rec>>

\* phoneNumber passes the handler's test: notify-absentees.js line 212, broadcast
\* line 641
PhoneAccepted(handler, phoneNumber) ==
  IF handler = "notify" THEN phoneNumber # << >> ELSE Len(phoneNumber) >= 11

\* notify-absentees.js lines 209-232, broadcast lines 638-662: the text message of
\* one member, the skipped counter, and the step to the next member
NtfSms ==
  /\ ntf.pc = "sms"
  /\ LET member == ntf.members[ntf.i]
         noContact == IF ~member.email /\ member.phone = << >> THEN 1 ELSE 0
         next(n) == NtfAnswerOrNext([n EXCEPT !.pc = "email", !.i = @ + 1,
                                              !.results.skipped = @ + noContact])
     IN IF ntf.method \in {"sms", "both"} /\ member.phone # << >> /\ env.twilio
        THEN IF PhoneAccepted(ntf.handler, formatPhone(member.phone))
             THEN \E ok \in BOOLEAN :
                    ntf' = next([ntf EXCEPT !.smsAttempts = @ + 1,
                                            !.results = IF ok THEN Counted(@, "smsSent")
                                                        ELSE Counted(@, "smsFailed")])
             ELSE ntf' = next([ntf EXCEPT !.results = Counted(@, "skipped")])
        ELSE ntf' = next(ntf)
  /\ UNCHANGED <<env, userVars, codeVars, rep, attendance, lastList, held, rec>>

\* the invocation ends
NtfFinish ==
  /\ ntf.pc = "done"
  /\ ntf' = IdleNtf
  /\ UNCHANGED <<env, userVars, codeVars, rep, attendance, lastList, held, rec>>

NtfNext ==
  \/ \E handler \in BatchHandlers, verb \in Methods, parses \in BOOLEAN, method \in BatchMethods :
       NtfReceive(handler, verb, parses, method)
  \/ \E rows \in SeqsUpTo(BatchMembers, MaxRecipients) : NtfSelect(rows)
  \/ NtfEmail
  \/ NtfSms
  \/ NtfFinish

NtfSpec == Init /\ [][NtfNext]_vars

\* the members of a batch that are due an email, and a text message
EmailDue(n) ==
  { k \in 1..Len(n.members) : n.method \in {"email", "both"} /\ n.members[k].email }
SmsDue(n) ==
  { k \in 1..Len(n.members) :
      /\ n.method \in {"sms", "both"} /\ env.twilio
      /\ n.members[k].phone # << >>
      /\ n.handler = "broadcast" => Len(Digits(n.members[k].phone)) >= 10 }

\* C22: a failed send never aborts a batch of notify-absentees or broadcast: once
\* the member rows are read the answer is 200, every selected member was served,
\* and every attempted email or text message is counted once: emailSent +
\* emailFailed is the number of emails attempted (the members due one) and
\* smsSent + smsFailed the number of text messages attempted.
C22_BatchNeverAborted ==
  /\ ntf.results.emailSent + ntf.results.emailFailed = ntf.emailAttempts
  /\ ntf.results.smsSent + ntf.results.smsFailed = ntf.smsAttempts
  /\ (ntf.pc = "done" /\ ntf.members # << >>)
       => /\ ntf.resp.status = 200 /\ ntf.resp.json
          /\ ntf.i = Len(ntf.members) + 1
          /\ ntf.resp.total = Len(ntf.members)
          /\ ntf.resp.results = ntf.results
          /\ ntf.emailAttempts = Cardinality(EmailDue(ntf))
          /\ ntf.smsAttempts = Cardinality(SmsDue(ntf))
  /\ ntf.pc \in {"email", "sms"} => ntf.i \in 1..Len(ntf.members)

\* C22 witness: the first member's email and text message failed and the second
\* member's were sent
C22_Witness ==
  /\ ntf.pc = "done" /\ ntf.resp.status = 200
  /\ Len(ntf.members) = 2
  /\ ntf.resp.results.emailFailed = 1 /\ ntf.resp.results.emailSent = 1
  /\ ntf.resp.results.smsFailed = 1 /\ ntf.resp.results.smsSent = 1

(***************************************************************************)
(* The users endpoint: users.js.  Runs of GET, POST and DELETE requests    *)
(* are followed; PUT requests are not.                                     *)
(***************************************************************************)
MaxUsers == 3

UsrMethods == {"OPTIONS", "GET", "POST", "DELETE", "PATCH"}

\* request bodies: text JSON.parse rejects, or an object with the fields read
UsrBody(username, password, isAdmin, userId) ==
  [parses |-> TRUE, username |-> username, password |-> password, isAdmin |-> isAdmin,
   userId |-> userId]
UsrMalformed == [parses |-> FALSE, username |-> << >>, password |-> << >>,
                 isAdmin |-> FALSE, userId |-> 0]

GoodPassword == <<"s", "e", "c", "r", "e", "t">>

\* bodies of POST users
CreateBodies ==
  { UsrMalformed,
    UsrBody(<<"A", "n", "n">>, GoodPassword, TRUE, 0),
    UsrBody(<<"b", "o", "b">>, GoodPassword, TRUE, 0),
    UsrBody(<<"c", "a", "t">>, GoodPassword, FALSE, 0),
    UsrBody(<<"a", "l">>, GoodPassword, TRUE, 0),
    UsrBody(<<"d", "a", "n">>, <<"s", "h", "o", "r", "t">>, TRUE, 0) }

\* bodies of DELETE users; userId 0 is a body without one
DeleteBodies == { UsrMalformed } \cup { UsrBody(<< >>, << >>, FALSE, id) : id \in 0..MaxUsers }

UsrBodies(method) ==
  IF method = "POST" THEN CreateBodies
  ELSE IF method = "DELETE" THEN DeleteBodies
  ELSE { UsrBody(<< >>, << >>, FALSE, 0) }

UsrRespond(status, ok) == [status |-> status, json |-> TRUE, success |-> ok, users |-> {}]
UsrAnswer(u, r) == [u EXCEPT !.pc = "done", !.resp = r]

\* the catch block
UsrError(u) == UsrAnswer(u, UsrRespond(500, FALSE))

\* SELECT COUNT(*) as count FROM users WHERE is_admin = TRUE
Admins == { r \in users : r.is_admin }

\* lines 25-58, 169-174 and 198: the checks made before the first query
UsrReceive(p, method, body) ==
  /\ usr[p].pc = "idle"
  /\ method = "POST"
       => userSeq + Cardinality({ q \in Procs : usr[q].method = "POST" /\ usr[q].pc # "done" })
            < MaxUsers
  /\ usr' = [usr EXCEPT ![p] =
       LET u == [IdleUsr EXCEPT !.method = method] IN
       IF method = "OPTIONS" THEN UsrAnswer(u, [IdleUsr.resp EXCEPT !.status = 200])
       ELSE IF ~env.db THEN UsrAnswer(u, UsrRespond(503, FALSE))
       ELSE IF ~body.parses THEN UsrError(u)
       ELSE IF method = "GET" THEN [u EXCEPT !.pc = "list"]
       ELSE IF method = "POST"
       THEN IF Len(body.username) < 3 \/ Len(body.password) < 6
            THEN UsrAnswer(u, UsrRespond(400, FALSE))
            ELSE [u EXCEPT !.pc = "existing", !.username = toLowerCase(body.username),
                           !.isAdmin = body.isAdmin]
       ELSE IF method = "DELETE"
       THEN IF body.userId = 0 THEN UsrAnswer(u, UsrRespond(400, FALSE))
            ELSE [u EXCEPT !.pc = "count", !.userId = body.userId]
       ELSE UsrAnswer(u, UsrRespond(404, FALSE))]
  /\ UNCHANGED <<env, attVars, codeVars, users, userSeq>>

\* lines 40-45: GET lists the rows
UsrList(p) ==
  /\ usr[p].pc = "list"
  /\ \E ok \in BOOLEAN :
       usr' = [usr EXCEPT ![p] =
         IF ok THEN UsrAnswer(@, [UsrRespond(200, FALSE) EXCEPT !.users = { r.id : r \in users }])
         ELSE UsrError(@)]
  /\ UNCHANGED <<env, attVars, codeVars, users, userSeq>>

\* lines 61-68: SELECT id FROM users WHERE username = $1
UsrExisting(p) ==
  /\ usr[p].pc = "existing"
  /\ \E ok \in BOOLEAN :
       usr' = [usr EXCEPT ![p] =
         IF ~ok THEN UsrError(@)
         ELSE IF \E r \in users : r.username = usr[p].username
         THEN UsrAnswer(@, UsrRespond(400, FALSE))
         ELSE [@ EXCEPT !.pc = "insert"]]
  /\ UNCHANGED <<env, attVars, codeVars, users, userSeq>>

\* lines 70-79: INSERT INTO users; username is UNIQUE (part_009 line 6)
UsrInsert(p) ==
  /\ usr[p].pc = "insert"
  /\ \E ok \in BOOLEAN :
       IF ok /\ ~\E r \in users : r.username = usr[p].username
       THEN /\ users' = users \cup
                 { [id |-> userSeq + 1, username |-> usr[p].username,
                    is_admin |-> usr[p].isAdmin] }
            /\ userSeq' = userSeq + 1
            /\ usr' = [usr EXCEPT ![p] =
                 UsrAnswer([@ EXCEPT !.userId = userSeq + 1], UsrRespond(201, TRUE))]
       ELSE /\ usr' = [usr EXCEPT ![p] = UsrError(@)]
            /\ UNCHANGED <<users, userSeq>>
  /\ UNCHANGED <<env, attVars, codeVars>>

\* lines 177-179: the admin count is read
UsrCount(p) ==
  /\ usr[p].pc = "count"
  /\ \E ok \in BOOLEAN :
       usr' = [usr EXCEPT ![p] =
         IF ok THEN [@ EXCEPT !.pc = "target", !.adminCount = Cardinality(Admins)]
         ELSE UsrError(@)]
  /\ UNCHANGED <<env, attVars, codeVars, users, userSeq>>

\* line 189: userToDelete.rows[0].is_admin && parseInt(adminCount.rows[0].count) <= 1
LastAdmin(row, adminCount) == row.is_admin /\ adminCount <= 1

\* lines 180-191: the row to delete is read and checked against the count read before
UsrTarget(p) ==
  /\ usr[p].pc = "target"
  /\ \E ok \in BOOLEAN :
       usr' = [usr EXCEPT ![p] =
         IF ~ok THEN UsrError(@)
         ELSE IF ~\E r \in users : r.id = usr[p].userId
         THEN UsrAnswer(@, UsrRespond(404, FALSE))
         ELSE IF \E r \in users : r.id = usr[p].userId /\ LastAdmin(r, usr[p].adminCount)
         THEN UsrAnswer(@, UsrRespond(400, FALSE))
         ELSE [@ EXCEPT !.pc = "delete"]]
  /\ UNCHANGED <<env, attVars, codeVars, users, userSeq>>

\* lines 193-195: DELETE FROM users WHERE id = $1
UsrDelete(p) ==
  /\ usr[p].pc = "delete"
  /\ \E ok \in BOOLEAN :
       IF ok
       THEN /\ users' = { r \in users : r.id # usr[p].userId }
            /\ usr' = [usr EXCEPT ![p] = UsrAnswer(@, UsrRespond(200, TRUE))]
       ELSE /\ usr' = [usr EXCEPT ![p] = UsrError(@)]
            /\ UNCHANGED users
  /\ UNCHANGED <<env, attVars, codeVars, userSeq>>

\* the invocation ends
UsrFinish(p) ==
  /\ usr[p].pc = "done"
  /\ usr' = [usr EXCEPT ![p] = IdleUsr]
  /\ UNCHANGED <<env, attVars, codeVars, users, userSeq>>

UsrStep(p) ==
  \/ UsrList(p)
  \/ UsrExisting(p)
  \/ UsrInsert(p)
  \/ UsrCount(p)
  \/ UsrTarget(p)
  \/ UsrDelete(p)
  \/ UsrFinish(p)

\* requests to the users endpoint overlap one another
UsrNext ==
  \/ \E p \in Procs, method \in UsrMethods :
       \E body \in UsrBodies(method) : UsrReceive(p, method, body)
  \/ \E p \in Procs : UsrStep(p)

\* the users endpoint reads only DATABASE_URL of the environment
UsrInit == Init /\ env \in {EnvFull, EnvNoDb}

UsrSpec == UsrInit /\ [][UsrNext]_vars

\* one request to the users endpoint is served at a time
UsrSeqNext ==
  \/ \E method \in UsrMethods :
       \E body \in UsrBodies(method) :
         (\A q \in Procs : usr[q].pc = "idle") /\ UsrReceive(SeqProc, method, body)
  \/ UsrStep(SeqProc)

UsrSeqSpec == UsrInit /\ [][UsrSeqNext]_vars

(***************************************************************************)
(* Password rotation: POST vimeo-password.                                 *)
(***************************************************************************)

\* what generatePassword returns in the runs the model follows
PasswordDraws == {"pwA", "pwB"}

RotRespond(code) == [status |-> code, json |-> TRUE]

\* the methods followed here: the preflight, the rotation and one the handler
\* refuses (its GET and PUT branches read and edit the active row)
RotMethods == {"OPTIONS", "POST", "DELETE"}

\* lines 124-131 and 168-195: checks, the video id, the new password
RotReceive(method, videoId, draw) ==
  /\ rot.pc = "idle"
  /\ method \in RotMethods
  /\ Cardinality(vimeo) < MaxRotations
  /\ rot' =
       IF method = "OPTIONS" THEN [IdleRot EXCEPT !.pc = "done", !.resp = [status |-> 200, json |-> FALSE]]
       ELSE IF ~env.db THEN [IdleRot EXCEPT !.pc = "done", !.resp = RotRespond(503)]
       ELSE IF method # "POST" THEN [IdleRot EXCEPT !.pc = "done", !.resp = RotRespond(405)]
       ELSE LET effectiveVideoId == IF videoId # "" THEN videoId ELSE env.videoId
            IN IF effectiveVideoId = ""
               THEN [IdleRot EXCEPT !.pc = "done", !.resp = RotRespond(400)]
               ELSE [IdleRot EXCEPT !.pc = IF env.token THEN "push" ELSE "deactivate",
                                    !.videoId = effectiveVideoId,
                                    !.password = draw,
                                    !.vimeoError = ~env.token]
  /\ UNCHANGED <<env, userVars, attVars, schedule, sched, now, checkins, vimeo, codes, sms, valLog, abs, ver>>

\* a rotation request is served while nothing else of the workflow is in flight
RotReceiveAlone(method, videoId, draw) ==
  /\ Quiet
  /\ RotReceive(method, videoId, draw)

\* lines 184-198: where the handler goes on after the push: the catch block only
\* records the error
PushMustSucceed(ok) == IF ok THEN "deactivate" ELSE "done"
AfterPush(ok) == "deactivate"

\* lines 184-192: the push to the video provider, whose failure is only recorded
RotPush ==
  /\ rot.pc = "push"
  /\ \E ok \in BOOLEAN :
       rot' = [rot EXCEPT !.pc = AfterPush(ok), !.vimeoUpdated = ok, !.vimeoError = ~ok]
  /\ UNCHANGED <<env, userVars, attVars, schedule, sched, now, checkins, vimeo, codes, sms, valLog, abs, ver>>

\* UPDATE vimeo_passwords SET active = false WHERE active = true
DeactivateNone(tbl) == tbl
Deactivated(tbl) == { [r EXCEPT !.active = FALSE] : r \in tbl }

\* line 198: the rows that were active are deactivated
RotDeactivate ==
  /\ rot.pc = "deactivate"
  /\ \E ok \in BOOLEAN :
       IF ok
       THEN /\ vimeo' = Deactivated(vimeo)
            /\ rot' = [rot EXCEPT !.pc = "insert"]
       ELSE /\ rot' = [rot EXCEPT !.pc = "done", !.resp = RotRespond(500)]
            /\ UNCHANGED vimeo
  /\ UNCHANGED <<env, userVars, attVars, schedule, sched, now, checkins, codes, sms, valLog, abs, ver>>

\* lines 203-225: INSERT the new row with active = true, then the 200 answer
RotInsert ==
  /\ rot.pc = "insert"
  /\ \E ok \in BOOLEAN :
       IF ok
       THEN /\ vimeo' = vimeo \cup
                 { [id |-> Cardinality(vimeo) + 1, video_id |-> rot.videoId,
                    password |-> rot.password, active |-> TRUE, created_at |-> now] }
            /\ rot' = [rot EXCEPT !.pc = "done", !.saved = Cardinality(vimeo) + 1,
                                   !.resp = RotRespond(200)]
       ELSE /\ rot' = [rot EXCEPT !.pc = "done", !.resp = RotRespond(500)]
            /\ UNCHANGED vimeo
  /\ UNCHANGED <<env, userVars, attVars, schedule, sched, now, checkins, codes, sms, valLog, abs, ver>>

\* the invocation ends
RotFinish ==
  /\ rot.pc = "done"
  /\ rot' = IdleRot
  /\ UNCHANGED <<env, userVars, attVars, schedule, sched, now, checkins, vimeo, codes, sms, valLog, abs, ver>>

RotStep == RotPush \/ RotDeactivate \/ RotInsert \/ RotFinish

(***************************************************************************)
(* Scheduled rotation: scheduled-password-rotation.js, and the enabled     *)
(* flag of its schedule, which PUT rotation-schedule sets.                 *)
(***************************************************************************)

\* the job's answers: { statusCode, body: JSON.stringify(...) }, but for the 503,
\* whose body is the bare text 'Database not configured'
SchedRespond(code) == [status |-> code, json |-> (code # 503)]

\* part_003 lines 91-107: UPDATE password_rotation_schedule SET enabled = $1; the
\* table holds the migration's row, so the INSERT of lines 109-122 is not reached
SchedulePut(enabled) ==
  /\ env.db
  /\ schedule # {}
  /\ \E r \in schedule : r.enabled # enabled
  /\ schedule' = { [r EXCEPT !.enabled = enabled] : r \in schedule }
  /\ UNCHANGED <<env, userVars, attVars, now, checkins, vimeo, codes, sms, valLog, abs, ver, rot, sched>>

\* lines 81-87: the job starts
SchedStart ==
  /\ sched.pc = "idle"
  /\ Cardinality(vimeo) < MaxRotations
  /\ sched' = IF ~env.db THEN [IdleSched EXCEPT !.pc = "done", !.resp = SchedRespond(503)]
               ELSE [IdleSched EXCEPT !.pc = "enabled"]
  /\ UNCHANGED <<env, userVars, attVars, schedule, now, checkins, vimeo, codes, sms, valLog, abs, ver, rot>>

\* lines 91-103: is a schedule row enabled?
SchedEnabled ==
  /\ sched.pc = "enabled"
  /\ \E ok \in BOOLEAN :
       sched' = IF ~ok THEN [sched EXCEPT !.pc = "done", !.resp = SchedRespond(500)]
                ELSE IF ~\E r \in schedule : r.enabled
                THEN [sched EXCEPT !.pc = "done", !.resp = SchedRespond(200)]
                ELSE [sched EXCEPT !.pc = "current"]
  /\ UNCHANGED <<env, userVars, attVars, schedule, now, checkins, vimeo, codes, sms, valLog, abs, ver, rot>>

\* lines 106-131: the video id of the active row, else VIMEO_VIDEO_ID; the new password
SchedCurrent(draw) ==
  /\ sched.pc = "current"
  /\ \E ok \in BOOLEAN :
       IF ~ok THEN sched' = [sched EXCEPT !.pc = "done", !.resp = SchedRespond(500)]
       ELSE \E videoId \in (IF ActiveRows # {} THEN { r.video_id : r \in LatestActive }
                               ELSE {env.videoId}) :
              sched' = IF videoId = ""
                       THEN [sched EXCEPT !.pc = "done", !.resp = SchedRespond(400)]
                       ELSE [sched EXCEPT !.pc = IF env.token THEN "push" ELSE "deactivate",
                                          !.videoId = videoId, !.password = draw]
  /\ UNCHANGED <<env, userVars, attVars, schedule, now, checkins, vimeo, codes, sms, valLog, abs, ver, rot>>

\* lines 134-143: the push to the video provider, whose failure is only logged
SchedPush ==
  /\ sched.pc = "push"
  /\ \E ok \in BOOLEAN : sched' = [sched EXCEPT !.pc = AfterPush(ok), !.vimeoUpdated = ok]
  /\ UNCHANGED <<env, userVars, attVars, schedule, now, checkins, vimeo, codes, sms, valLog, abs, ver, rot>>

\* line 146: UPDATE vimeo_passwords SET active = false WHERE active = true
SchedDeactivate ==
  /\ sched.pc = "deactivate"
  /\ \E ok \in BOOLEAN :
       IF ok
       THEN /\ vimeo' = Deactivated(vimeo)
            /\ sched' = [sched EXCEPT !.pc = "insert"]
       ELSE /\ sched' = [sched EXCEPT !.pc = "done", !.resp = SchedRespond(500)]
            /\ UNCHANGED vimeo
  /\ UNCHANGED <<env, userVars, attVars, schedule, now, checkins, codes, sms, valLog, abs, ver, rot>>

\* lines 149-152: INSERT the new row with active = true
SchedInsert ==
  /\ sched.pc = "insert"
  /\ \E ok \in BOOLEAN :
       IF ok
       THEN /\ vimeo' = vimeo \cup
                 { [id |-> Cardinality(vimeo) + 1, video_id |-> sched.videoId,
                    password |-> sched.password, active |-> TRUE, created_at |-> now] }
            /\ sched' = [sched EXCEPT !.pc = "lastrun", !.saved = Cardinality(vimeo) + 1]
       ELSE /\ sched' = [sched EXCEPT !.pc = "done", !.resp = SchedRespond(500)]
            /\ UNCHANGED vimeo
  /\ UNCHANGED <<env, userVars, attVars, schedule, now, checkins, codes, sms, valLog, abs, ver, rot>>

\* lines 155-171: UPDATE password_rotation_schedule SET last_run, then the 200 answer
SchedLastRun ==
  /\ sched.pc = "lastrun"
  /\ \E ok \in BOOLEAN :
       IF ok
       THEN /\ schedule' = { IF r.enabled THEN [r EXCEPT !.last_run = <<now>>] ELSE r :
                              r \in schedule }
            /\ sched' = [sched EXCEPT !.pc = "done", !.resp = SchedRespond(200)]
       ELSE /\ sched' = [sched EXCEPT !.pc = "done", !.resp = SchedRespond(500)]
            /\ UNCHANGED schedule
  /\ UNCHANGED <<env, userVars, attVars, now, checkins, vimeo, codes, sms, valLog, abs, ver, rot>>

\* the invocation ends
SchedFinish ==
  /\ sched.pc = "done"
  /\ sched' = IdleSched
  /\ UNCHANGED <<env, userVars, attVars, schedule, now, checkins, vimeo, codes, sms, valLog, abs, ver, rot>>

SchedStep ==
  \/ SchedEnabled
  \/ \E draw \in PasswordDraws : SchedCurrent(draw)
  \/ SchedPush
  \/ SchedDeactivate
  \/ SchedInsert
  \/ SchedLastRun
  \/ SchedFinish

\* bodies of POST vimeo-password: with and without a video id
RotVideoIds == {"", "v1"}

\* a manual rotation and the scheduled job overlap statement by statement
RotNext ==
  \/ \E method \in RotMethods, videoId \in RotVideoIds, draw \in PasswordDraws :
       RotReceive(method, videoId, draw)
  \/ RotStep
  \/ \E enabled \in BOOLEAN : SchedulePut(enabled)
  \/ SchedStart
  \/ SchedStep

RotSpec == Init /\ [][RotNext]_vars

\* rotations run one after another
RotSeqNext ==
  \/ \E method \in RotMethods, videoId \in RotVideoIds, draw \in PasswordDraws :
       sched.pc = "idle" /\ RotReceive(method, videoId, draw)
  \/ RotStep
  \/ \E enabled \in BOOLEAN : SchedulePut(enabled)
  \/ rot.pc = "idle" /\ SchedStart
  \/ SchedStep

RotSeqSpec == Init /\ [][RotSeqNext]_vars

(***************************************************************************)
(* Rotation: properties.                                                   *)
(***************************************************************************)

\* C11 as stated: in every state of every interleaving of a manual rotation and the
\* scheduled job at most one vimeo_passwords row has active = true.
C11_AtMostOneActive == Cardinality(ActiveRows) <= 1

\* C23 as stated: when rotations overlap, zero or two active rows are only a brief
\* window: once every rotation in flight has completed (each stored its row and
\* answered 200), exactly one row has active = true.
C23_OneActiveAfterCompletion ==
  (/\ rot.pc = "done" /\ rot.resp.status = 200 /\ rot.saved # 0
   /\ sched.pc = "done" /\ sched.resp.status = 200 /\ sched.saved # 0)
    => Cardinality(ActiveRows) = 1

\* the row a rotation inserted
SavedRow(id) == { r \in vimeo : r.id = id }

\* C12: when rotations run one after another, a rotation that stored its row leaves
\* exactly one active row, the row it inserted; every row of an earlier rotation
\* is inactive; at no time is a row other than the newest active.
C12_LastRotationAlone ==
  /\ (rot.pc = "done" /\ rot.saved # 0)
       => (ActiveRows = SavedRow(rot.saved) /\ Cardinality(ActiveRows) = 1)
  /\ (sched.pc \in {"lastrun", "done"} /\ sched.saved # 0)
       => (ActiveRows = SavedRow(sched.saved) /\ Cardinality(ActiveRows) = 1)
  /\ rot.pc = "done" /\ rot.resp.status = 200 /\ rot.resp.json /\ rot.videoId # ""
       => rot.saved # 0
  /\ sched.pc = "done" /\ sched.resp.status = 200 /\ sched.videoId # ""
       => sched.saved # 0
  /\ \A r \in ActiveRows : \A q \in vimeo : q.id <= r.id

\* C12 witness: the spec's scenario, a second rotation after a first: the manual
\* rotation stored the second row and the first row is inactive
C12_Witness ==
  /\ rot.pc = "done" /\ rot.resp.status = 200 /\ rot.saved = 2
  /\ \E r \in vimeo : r.id = 1 /\ ~r.active
  /\ \E r \in vimeo : r.id = 2 /\ r.active

\* C12 witness: the scheduled job rotated after a manual rotation
C12_ScheduledSecond ==
  /\ sched.pc = "done" /\ sched.resp.status = 200 /\ sched.saved = 2
  /\ \E r \in vimeo : r.id = 1 /\ ~r.active

\* what the 200 answers report of the push: vimeo-password.js lines 210-225 send
\* vimeoUpdated and vimeoError; scheduled-password-rotation.js lines 163-171 send
\* vimeoUpdated and no vimeoError
RotReported == [vimeoUpdated |-> rot.vimeoUpdated, vimeoError |-> rot.vimeoError]
SchedReported == [vimeoUpdated |-> sched.vimeoUpdated, vimeoError |-> FALSE]

\* a rotation that answered 200 has inserted its row with its password
RotStored ==
  /\ rot.resp.status = 200
  /\ rot.saved # 0
  /\ \E r \in vimeo :
       r.id = rot.saved /\ r.password = rot.password /\ r.video_id = rot.videoId
SchedStored ==
  /\ sched.resp.status = 200
  /\ sched.saved # 0
  /\ \E r \in vimeo :
       r.id = sched.saved /\ r.password = sched.password /\ r.video_id = sched.videoId

\* C13 as stated: every rotation with a video id stores its row whatever became
\* of the push, and a push that did not succeed is reported in the 200 answer by
\* vimeoUpdated = false and a vimeoError.
C13_PushReportedWithError ==
  /\ (rot.pc = "done" /\ rot.videoId # "" /\ rot.resp.status # 500)
       => /\ RotStored
          /\ RotReported.vimeoUpdated <=> ~RotReported.vimeoError
  /\ (sched.pc = "done" /\ sched.videoId # "" /\ sched.resp.status # 500)
       => /\ SchedStored
          /\ SchedReported.vimeoUpdated <=> ~SchedReported.vimeoError

\* the answers of finished rotations
RotationAnswers ==
  /\ (rot.pc = "done" /\ rot.videoId # "" /\ rot.resp.status # 500)
       => /\ RotStored
          /\ RotReported.vimeoUpdated <=> ~RotReported.vimeoError
  /\ (sched.pc = "done" /\ sched.videoId # "" /\ sched.resp.status # 500)
       => /\ SchedStored
          /\ ~SchedReported.vimeoError
  /\ (rot.vimeoUpdated \/ sched.vimeoUpdated) => env.token

\* the statements of a rotation: the push is followed by the deactivation whatever
\* its outcome; the deactivation leaves no row active; the insert adds one
\* active row holding the new password
RotationStatements ==
  /\ (rot.pc = "push" /\ rot' # rot) => rot'.pc = "deactivate"
  /\ (sched.pc = "push" /\ sched' # sched) => sched'.pc = "deactivate"
  /\ (rot.pc = "deactivate" /\ rot'.pc = "insert") => \A r \in vimeo' : ~r.active
  /\ (sched.pc = "deactivate" /\ sched'.pc = "insert") => \A r \in vimeo' : ~r.active
  /\ (rot.pc = "insert" /\ rot'.resp.status = 200)
       => \E r \in vimeo' \ vimeo :
            r.active /\ r.id = rot'.saved /\ r.password = rot.password
  /\ (sched.pc = "insert" /\ sched'.pc = "lastrun")
       => \E r \in vimeo' \ vimeo :
            r.active /\ r.id = sched'.saved /\ r.password = sched.password

\* C13: every rotation with a video id deactivates the active rows and inserts
\* its row as an active one, and answers 200 unless a store statement fails,
\* whether the push succeeded, failed or was skipped; a push that did not
\* succeed is reported by vimeoUpdated = false, and by the manual rotation
\* also by a vimeoError, which the scheduled job's answer never carries.
C13_PushNeverBlocksRotation == [] RotationAnswers /\ [][RotationStatements]_vars

\* C13 witness: the push failed, the row was stored and the answer is 200
C13_Witness ==
  /\ env.token
  /\ rot.pc = "done" /\ RotStored
  /\ ~RotReported.vimeoUpdated /\ RotReported.vimeoError
  /\ \E r \in vimeo : ~r.active

\* C13 witnesses: the push was skipped for lack of a token; the scheduled job's
\* push failed
C13_Skipped ==
  ~env.token /\ rot.pc = "done" /\ RotStored /\ RotReported.vimeoError
C13_ScheduledPushFailed ==
  env.token /\ sched.pc = "done" /\ SchedStored /\ ~SchedReported.vimeoUpdated

(***************************************************************************)
(* Absence check-in with access-code issuance: the member's own check-in   *)
(* (kind "self") and the staff's manual absence (kind "manual").  After    *)
(* the check-in row is stored the two handlers run the same code.          *)
(***************************************************************************)

\* names are strings of words and blanks
RECURSIVE TrimLeft(_)
TrimLeft(str) == IF str # << >> /\ Head(str) = " " THEN TrimLeft(Tail(str)) ELSE str
RECURSIVE TrimRight(_)
TrimRight(str) ==
  IF str # << >> /\ str[Len(str)] = " " THEN TrimRight(SubSeq(str, 1, Len(str) - 1)) ELSE str

\* String.prototype.trim
trim(str) == TrimLeft(TrimRight(str))

NameAnn == <<" ", "Ann", " ", "Lee">>
PhoneAnn == << "+", "1", " ", "5", "5", "5", " ", "0", "1", "0", " ", "1", "1", "1", "1" >>
PhoneStranger == << "5", "5", "5", "-", "1", "2", "3", "-", "4", "5", "6", "7" >>
PhoneShort == << "5", "5", "5", "-", "0", "1", "0", "1" >>

validReasons == {"sick", "vacation", "business", "other"}

AbsBody(nm, ph, rs, sd, sl) ==
  [parses |-> TRUE, name |-> nm, phone |-> ph, reason |-> rs, serviceDate |-> sd, sendLink |-> sl]
AbsMalformed ==
  [parses |-> FALSE, name |-> << >>, phone |-> << >>, reason |-> "", serviceDate |-> FALSE,
   sendLink |-> FALSE]

\* bodies of POST absence
SelfBodies ==
  { AbsMalformed,
    AbsBody(NameAnn, PhoneAnn, "sick", TRUE, FALSE),
    AbsBody(NameAnn, PhoneStranger, "other", FALSE, FALSE),
    AbsBody(<<" ">>, PhoneAnn, "sick", TRUE, FALSE),
    AbsBody(NameAnn, <<" ">>, "sick", TRUE, FALSE),
    AbsBody(NameAnn, PhoneAnn, "", TRUE, FALSE),
    AbsBody(NameAnn, PhoneAnn, "bored", TRUE, FALSE) }

\* bodies of POST manual-absence
ManualBodies ==
  { AbsMalformed,
    AbsBody(NameAnn, PhoneAnn, "sick", TRUE, TRUE),
    AbsBody(NameAnn, PhoneShort, "vacation", TRUE, FALSE),
    AbsBody(NameAnn, PhoneShort, "sick", TRUE, TRUE),
    AbsBody(NameAnn, << >>, "sick", TRUE, TRUE),
    AbsBody(<< >>, PhoneAnn, "sick", TRUE, TRUE),
    AbsBody(NameAnn, PhoneAnn, "sick", FALSE, TRUE),
    AbsBody(NameAnn, PhoneAnn, "bored", TRUE, TRUE) }

AbsBodies(kind) == IF kind = "self" THEN SelfBodies ELSE ManualBodies

\* the 400 answers of the two handlers
AbsInvalid(kind, b) ==
  IF kind = "self"
  THEN \/ trim(b.name) = << >>
       \/ trim(b.phone) = << >>
       \/ b.reason \notin validReasons
  ELSE \/ b.name = << >>
       \/ ~b.serviceDate
       \/ b.reason \notin validReasons

AbsRespond(code, ok, nm) ==
  [status |-> code, json |-> TRUE, success |-> ok, notMember |-> nm, smsError |-> ""]

\* the request's fields are dead once the answer is built
AbsAnswer(a, r) ==
  [a EXCEPT !.pc = "done", !.resp = r, !.name = << >>, !.phone = << >>, !.to = << >>,
            !.sendLink = FALSE]

\* smsError: smsSent ? null : smsError ("" is null)
ReportedSmsError(a) == IF a.smsSent THEN "" ELSE a.smsError

\* the 200 answer: success: true, with smsSent and the smsError reported
AbsDone(a) ==
  AbsAnswer(a, [AbsRespond(200, TRUE, FALSE) EXCEPT !.smsError = ReportedSmsError(a)])

\* the outer catch block's 500 answer
AbsError(a) == AbsAnswer(a, AbsRespond(500, FALSE, FALSE))

\* the inner catch block: smsError = smsErr.message, the message of the call that threw
AbsSmsError(a, message) == AbsDone([a EXCEPT !.smsError = message])

\* part_005 lines 65-102, manual-absence.js lines 250-295
AbsReceive(p, kind, method, body) ==
  /\ abs[p].pc = "idle"
  /\ Cardinality(checkins) + Cardinality({ q \in Procs : abs[q].pc # "idle" }) < MaxCheckins
  /\ abs' = [abs EXCEPT ![p] =
       IF method = "OPTIONS"
       THEN [IdleAbs EXCEPT !.pc = "done", !.resp = [@ EXCEPT !.status = 200]]
       ELSE IF method # "POST" THEN [IdleAbs EXCEPT !.pc = "done", !.resp = AbsRespond(405, FALSE, FALSE)]
       ELSE IF ~env.db THEN [IdleAbs EXCEPT !.pc = "done", !.resp = AbsRespond(503, FALSE, FALSE)]
       ELSE IF ~body.parses THEN AbsError(IdleAbs)
       ELSE IF AbsInvalid(kind, body)
       THEN [IdleAbs EXCEPT !.pc = "done", !.resp = AbsRespond(400, FALSE, FALSE)]
       ELSE [IdleAbs EXCEPT
               !.pc = IF kind = "self" THEN "member" ELSE "checkin",
               !.kind = kind,
               !.name = trim(body.name),
               !.phone = Last10(Digits(body.phone)),
               !.to = IF kind = "self" THEN formatPhone(body.phone)
                      ELSE formatPhone(Last10(Digits(body.phone))),
               !.sendLink = body.sendLink]]
  /\ UNCHANGED <<env, userVars, attVars, schedule, sched, now, checkins, vimeo, codes, sms, valLog, ver, rot>>

\* a check-in request is served while no verification or rotation is in flight
AbsReceiveApart(p, kind, method, body) ==
  /\ \A q \in Procs : ver[q].pc = "idle"
  /\ rot.pc = "idle"
  /\ AbsReceive(p, kind, method, body)

\* part_005 lines 104-119: the phone must match a row of the member directory
AbsMember(p) ==
  /\ abs[p].pc = "member"
  /\ \E ok \in BOOLEAN :
       IF ~ok THEN abs' = [abs EXCEPT ![p] = AbsError(@)]
       ELSE IF MembersByPhone(abs[p].phone) = {}
       THEN abs' = [abs EXCEPT ![p] = AbsAnswer(@, AbsRespond(403, FALSE, TRUE))]
       ELSE \E m \in MembersByPhone(abs[p].phone) :
              abs' = [abs EXCEPT ![p].pc = "checkin", ![p].member = m]
  /\ UNCHANGED <<env, userVars, attVars, schedule, sched, now, checkins, vimeo, codes, sms, valLog, ver, rot>>

\* part_005 lines 128-139, manual-absence.js lines 298-312: INSERT INTO
\* absentee_checkins; phone is NOT NULL (migrations/007)
AbsCheckin(p) ==
  /\ abs[p].pc = "checkin"
  /\ \E ok \in BOOLEAN :
       IF ok /\ abs[p].phone # << >>
       THEN LET id == Cardinality(checkins) + 1 IN
            /\ checkins' = checkins \cup
                 { [id |-> id, livestream_sent |-> FALSE] }
            /\ abs' = [abs EXCEPT ![p] =
                 IF abs[p].kind = "self" \/ abs[p].sendLink
                 THEN [@ EXCEPT !.pc = "active", !.checkin = id]
                 ELSE AbsDone([@ EXCEPT !.checkin = id])]
       ELSE /\ abs' = [abs EXCEPT ![p] = AbsError(@)]
            /\ UNCHANGED checkins
  /\ UNCHANGED <<env, userVars, attVars, schedule, sched, now, vimeo, codes, sms, valLog, ver, rot>>

\* part_005 line 151: vimeoResult.rows.length > 0 && twilioClient && TWILIO_PHONE
ReadyWithoutSms(rows) == rows # {}
StreamReady(rows) == rows # {} /\ env.twilio

\* part_005 lines 143-151 and 207-213: is there an active livestream password?
AbsActive(p) ==
  /\ abs[p].pc = "active"
  /\ \E ok \in BOOLEAN :
       abs' = [abs EXCEPT ![p] =
         IF ~ok THEN AbsSmsError(@, "select failed")
         ELSE IF StreamReady(ActiveRows) THEN [@ EXCEPT !.pc = "code", !.active = TRUE]
         ELSE IF ~env.twilio
         THEN AbsDone([@ EXCEPT !.active = (ActiveRows # {}),
                                !.smsError = "SMS service not configured"])
         ELSE AbsDone([@ EXCEPT !.smsError = "No active live stream password configured"])]
  /\ UNCHANGED <<env, userVars, attVars, schedule, sched, now, checkins, vimeo, codes, sms, valLog, ver, rot>>

\* the UNIQUE constraint on stream_access_codes.code: error 23505 for a stored code
NoConstraint(c) == FALSE
UniqueViolation(c) == \E r \in codes : r.code = c

\* the loop condition: while (!codeGenerated && attempts < 10), after a collision
RetriesOnceMore(attempts) == attempts <= MaxAttempts
RetriesLeft(attempts) == attempts < MaxAttempts

\* the row INSERT INTO stream_access_codes stores; the other columns take their defaults
NewCodeRow(id, c, nm, ck, exp) ==
  [id |-> id, code |-> c, member_name |-> nm, checkin |-> ck, expires_at |-> exp,
   first_used_at |-> NULL, last_used_at |-> NULL, use_count |-> 0, revoked |-> FALSE]

\* part_005 lines 155-178 and 204-206: one round of the generation loop
AbsCodeInsert(p, draw) ==
  /\ abs[p].pc = "code"
  /\ LET c == generateAccessCode(draw)
         a == [abs[p] EXCEPT !.code = c, !.inserts = @ + 1]
     IN \E ok \in BOOLEAN :
          IF ~ok \/ ~\E k \in checkins : k.id = a.checkin
          THEN /\ abs' = [abs EXCEPT ![p] = AbsSmsError(a, "insert failed")]
               /\ UNCHANGED <<codes, valLog>>
          ELSE IF UniqueViolation(c)
          THEN /\ abs' = [abs EXCEPT ![p] =
                    IF RetriesLeft(a.attempts + 1)
                    THEN [a EXCEPT !.attempts = @ + 1]
                    ELSE AbsDone([a EXCEPT !.attempts = @ + 1,
                                           !.smsError = "Unable to generate access code"])]
               /\ UNCHANGED <<codes, valLog>>
          ELSE /\ codes' = codes \cup
                    { NewCodeRow(Cardinality(codes) + 1, c, a.name, a.checkin, now + ExpiryHours) }
               /\ valLog' = Append(valLog, << >>)
               /\ abs' = [abs EXCEPT ![p] =
                    IF a.kind = "self" \/ Len(a.to) >= 11
                    THEN [a EXCEPT !.pc = "sms"]
                    ELSE AbsDone([a EXCEPT !.smsError = "Invalid phone number format"])]
  /\ UNCHANGED <<env, userVars, attVars, schedule, sched, now, checkins, vimeo, sms, ver, rot>>

\* part_005 lines 182-193: the text message with the code and the watch link
AbsSms(p) ==
  /\ abs[p].pc = "sms"
  /\ \E ok \in BOOLEAN :
       IF ok
       THEN /\ sms' = sms \cup
                 { [to |-> abs[p].to, code |-> abs[p].code, checkin |-> abs[p].checkin] }
            /\ abs' = [abs EXCEPT ![p].pc = "mark", ![p].smsSent = TRUE]
       ELSE /\ abs' = [abs EXCEPT ![p] = AbsSmsError(@, "send failed")]
            /\ UNCHANGED sms
  /\ UNCHANGED <<env, userVars, attVars, schedule, sched, now, checkins, vimeo, codes, valLog, ver, rot>>

\* part_005 lines 195-200: UPDATE absentee_checkins SET livestream_sent = true
AbsMark(p) ==
  /\ abs[p].pc = "mark"
  /\ \E ok \in BOOLEAN :
       IF ok
       THEN /\ checkins' = { IF k.id = abs[p].checkin THEN [k EXCEPT !.livestream_sent = TRUE]
                             ELSE k : k \in checkins }
            /\ abs' = [abs EXCEPT ![p] = AbsDone(@)]
       ELSE /\ abs' = [abs EXCEPT ![p] = AbsSmsError(@, "update failed")]
            /\ UNCHANGED checkins
  /\ UNCHANGED <<env, userVars, attVars, schedule, sched, now, vimeo, codes, sms, valLog, ver, rot>>

\* the invocation ends
AbsFinish(p) ==
  /\ abs[p].pc = "done"
  /\ abs' = [abs EXCEPT ![p] = IdleAbs]
  /\ UNCHANGED <<env, userVars, attVars, schedule, sched, now, checkins, vimeo, codes, sms, valLog, ver, rot>>

\* the steps of an invocation whose random source runs as one of draws
AbsStepDrawing(p, draws) ==
  \/ AbsMember(p)
  \/ AbsCheckin(p)
  \/ AbsActive(p)
  \/ \E draw \in draws : AbsCodeInsert(p, draw)
  \/ AbsSms(p)
  \/ AbsMark(p)
  \/ AbsFinish(p)

AbsStep(p) == AbsStepDrawing(p, CodeDraws)

\* the handler each slot serves: invocations of one handler follow one another
\* and overlap those of the other handler
KindOf == [p \in Procs |-> IF p = SeqProc THEN "self" ELSE "manual"]

\* the livestream password is rotated before the service's check-ins come in; the
\* request names a video id where the deployment has no default
RotReceiveAhead(method) ==
  /\ checkins = {}
  /\ RotReceiveAlone(method, IF env.videoId = "" THEN "v1" ELSE "", "pwA")

\* check-ins from both handlers overlap one another; rotations run apart
IssNext ==
  \/ \E p \in Procs, method \in Methods :
       \E body \in (IF method = "POST" THEN AbsBodies(KindOf[p]) ELSE {AbsMalformed}) :
         AbsReceiveApart(p, KindOf[p], method, body)
  \/ \E p \in Procs : AbsStep(p)
  \/ \E method \in RotMethods : RotReceiveAhead(method)
  \/ RotStep

IssSpec == Init /\ [][IssNext]_vars

(***************************************************************************)
(* DELETE delete-absentee.  A deleted absentee_checkins row keeps its place *)
(* in checkins with its id negated: no row has that id any more and no     *)
(* later row is given it (the ids are UUIDs).                              *)
(***************************************************************************)
DelMethods == {"OPTIONS", "DELETE", "POST"}

\* the id query parameter; 0 is a request without one
DelIds == 0..MaxCheckins

Gone(k) == [k EXCEPT !.id = -k.id]

\* part_008 line 9: absentee_checkin_id REFERENCES absentee_checkins(id)
\* ON DELETE SET NULL; 0 is the NULL reference
Cascade(rows, id) == { r \in rows : r.checkin # id }
SetNull(rows, id) ==
  { IF r.checkin = id THEN [r EXCEPT !.checkin = 0] ELSE r : r \in rows }

\* delete-absentee.js lines 24-66: the whole handler; its one statement is
\* DELETE FROM absentee_checkins WHERE id = $1 RETURNING id, name
DeleteAbsentee(p, method, id) ==
  /\ abs[p].pc = "idle"
  /\ LET answer(status, ok) ==
           [IdleAbs EXCEPT !.pc = "done", !.kind = "delete", !.checkin = id,
                           !.resp = AbsRespond(status, ok, FALSE)]
     IN IF method = "OPTIONS"
        THEN /\ abs' = [abs EXCEPT ![p] =
                  [IdleAbs EXCEPT !.pc = "done", !.kind = "delete",
                                  !.resp = [@ EXCEPT !.status = 200]]]
             /\ UNCHANGED <<checkins, codes>>
        ELSE IF method # "DELETE"
        THEN abs' = [abs EXCEPT ![p] = answer(405, FALSE)] /\ UNCHANGED <<checkins, codes>>
        ELSE IF ~env.db
        THEN abs' = [abs EXCEPT ![p] = answer(503, FALSE)] /\ UNCHANGED <<checkins, codes>>
        ELSE IF id = 0
        THEN abs' = [abs EXCEPT ![p] = answer(400, FALSE)] /\ UNCHANGED <<checkins, codes>>
        ELSE \E ok \in BOOLEAN :
               IF ~ok
               THEN abs' = [abs EXCEPT ![p] = answer(500, FALSE)]
                    /\ UNCHANGED <<checkins, codes>>
               ELSE IF ~\E k \in checkins : k.id = id
               THEN abs' = [abs EXCEPT ![p] = answer(404, FALSE)]
                    /\ UNCHANGED <<checkins, codes>>
               ELSE /\ checkins' = { IF k.id = id THEN Gone(k) ELSE k : k \in checkins }
                    /\ codes' = SetNull(codes, id)
                    /\ abs' = [abs EXCEPT ![p] = answer(200, TRUE)]
  /\ UNCHANGED <<env, userVars, attVars, schedule, sched, now, vimeo, sms, valLog, ver, rot>>

\* check-ins are deleted while others are being recorded and their codes issued
DelNext ==
  \/ \E p \in Procs, method \in Methods :
       \E body \in (IF method = "POST" THEN AbsBodies(KindOf[p]) ELSE {AbsMalformed}) :
         AbsReceiveApart(p, KindOf[p], method, body)
  \/ \E p \in Procs : AbsStep(p)
  \/ \E method \in RotMethods : RotReceiveAhead(method)
  \/ RotStep
  \/ \E p \in Procs, method \in DelMethods, id \in DelIds : DeleteAbsentee(p, method, id)

DelSpec == Init /\ [][DelNext]_vars


(***************************************************************************)
(* Issuance: properties.                                                   *)
(***************************************************************************)

\* C9: in every reachable state the rows of stream_access_codes carry pairwise
\* distinct codes, whichever handlers issued them and however their issuances
\* overlapped; a colliding INSERT stores nothing and the loop draws again.
C9_CodesPairwiseDistinct ==
  /\ \A r1 \in codes, r2 \in codes : r1.code = r2.code => r1.id = r2.id
  /\ \A p \in Procs :
       (abs[p].pc = "code" /\ abs[p].attempts > 0)
         => (\E r \in codes : r.code = abs[p].code /\ r.checkin # abs[p].checkin)

\* C9 witness: two codes are stored, one per handler, and one of the two issuances
\* drew the other's code first, was rejected and drew again
C9_Witness ==
  /\ \E r1 \in codes, r2 \in codes : r1.code # r2.code
  /\ \E p \in Procs, q \in Procs :
       /\ abs[p].kind = "self" /\ abs[q].kind = "manual"
       /\ abs[q].attempts >= 1
       /\ \E r \in codes : r.checkin = abs[q].checkin /\ r.code = abs[q].code
       /\ \E r \in codes : r.checkin = abs[p].checkin /\ r.code = abs[p].code

\* C10: the generation loop is bounded: an issuance makes at most MaxAttempts INSERT
\* attempts, each collision being followed by one more draw; after MaxAttempts
\* collisions it ends with smsError 'Unable to generate access code', no code row
\* for the check-in and no text message; an INSERT that fails for another reason
\* is the last INSERT of the issuance.
C10_GenerationLoopBounded ==
  \A p \in Procs :
    /\ abs[p].inserts <= MaxAttempts
    /\ abs[p].attempts <= abs[p].inserts
    /\ abs[p].pc = "code" => (abs[p].inserts = abs[p].attempts /\ abs[p].attempts < MaxAttempts)
    /\ abs[p].smsError = "Unable to generate access code"
         => /\ abs[p].pc = "done"
            /\ abs[p].attempts = MaxAttempts /\ abs[p].inserts = MaxAttempts
            /\ ~abs[p].smsSent
            /\ abs[p].resp.status = 200
            /\ ~\E r \in codes : r.checkin = abs[p].checkin
            /\ ~\E m \in sms : m.checkin = abs[p].checkin
    /\ (abs[p].pc = "done" /\ abs[p].attempts = MaxAttempts)
         => abs[p].smsError = "Unable to generate access code"
    /\ abs[p].smsError = "insert failed"
         => /\ abs[p].pc = "done"
            /\ abs[p].inserts = abs[p].attempts + 1
            /\ ~abs[p].smsSent
            /\ ~\E r \in codes : r.checkin = abs[p].checkin

\* C10 witness: an issuance gave up after MaxAttempts collisions
C10_Witness ==
  \E p \in Procs :
    /\ abs[p].pc = "done"
    /\ abs[p].smsError = "Unable to generate access code"
    /\ abs[p].inserts = MaxAttempts

\* C10 witness of the other way out: an INSERT failed for another reason after
\* collisions had been retried
C10_OtherError ==
  \E p \in Procs :
    /\ abs[p].pc = "done"
    /\ abs[p].smsError = "insert failed"
    /\ abs[p].attempts >= 1

\* the code rows and text messages of a check-in
CodesOf(ck) == { r \in codes : r.checkin = ck }
SmsOf(ck) == { m \in sms : m.checkin = ck }

\* C15: a self check-in whose phone matches no member is answered 403 with
\* notMember: true and has created no check-in row, no access code and no text
\* message; a self check-in has a check-in row only if the lookup returned a
\* member whose phone has the last ten digits typed.
C15_NonMemberRejected ==
  \A p \in Procs :
    /\ abs[p].resp.notMember
         => /\ abs[p].kind = "self"
            /\ abs[p].resp.status = 403 /\ abs[p].resp.json /\ ~abs[p].resp.success
            /\ abs[p].member = "" /\ abs[p].checkin = 0
            /\ abs[p].inserts = 0 /\ abs[p].code = << >> /\ ~abs[p].smsSent
    /\ (abs[p].kind = "self" /\ abs[p].pc = "member")
         => (abs[p].checkin = 0 /\ abs[p].inserts = 0 /\ ~abs[p].smsSent)
    /\ (abs[p].kind = "self" /\ abs[p].checkin # 0)
         => /\ abs[p].member \in Members
            /\ abs[p].pc # "done"
                 => Last10(Digits(MemberPhone[abs[p].member])) = abs[p].phone
    /\ \A r \in codes : \E k \in checkins : k.id = r.checkin
    /\ \A m \in sms : \E k \in checkins : k.id = m.checkin

\* C15 witness: a stranger's check-in was rejected after a member's was stored
C15_Witness ==
  /\ abs[SeqProc].pc = "done" /\ abs[SeqProc].resp.notMember
  /\ abs[SeqProc].resp.status = 403
  /\ checkins # {}

\* the messages of the calls that fail after the check-in row is stored
LaterFailures == {"select failed", "insert failed", "send failed", "update failed"}

\* C16 as stated: once the check-in row of a self check-in is inserted, a later
\* failure (password lookup, code insertion, SMS send, livestream_sent update)
\* leaves the row stored and the answer is 200 with success: true and the
\* failure reported in smsError.
C16_LaterFailureReported ==
  \A p \in Procs :
    (abs[p].kind = "self" /\ abs[p].pc = "done" /\ abs[p].smsError \in LaterFailures)
      => /\ \E k \in checkins : k.id = abs[p].checkin
         /\ abs[p].resp.status = 200 /\ abs[p].resp.success
         /\ abs[p].resp.smsError = abs[p].smsError

\* what the password lookup and the configuration let the check-in do
MayIssue(a) == a.active /\ env.twilio

\* the check-in ran the code that follows the INSERT of its row to the end
Processed(a) ==
  /\ a.pc = "done" /\ a.checkin # 0
  /\ a.kind = "self" \/ a.smsError # "" \/ a.smsSent

\* C17 as stated: a code is issued at check-in exactly when the password lookup
\* found an active row: none found, no code row; one found, a code row bound to
\* the check-in (unless the INSERT failed or collided ten times).
C17_IssuedIffActive ==
  \A p \in Procs :
    Processed(abs[p]) =>
      /\ ~abs[p].active => CodesOf(abs[p].checkin) = {}
      /\ (abs[p].active /\ abs[p].smsError \notin {"insert failed", "Unable to generate access code"})
           => CodesOf(abs[p].checkin) # {}

\* C17: a code is issued at check-in exactly when the password lookup found an
\* active row and the SMS provider is configured: otherwise no code row is
\* created for the check-in; if both hold, one code row bound to the check-in
\* is created unless the INSERT failed or collided MaxAttempts times.
C17_IssuedIffActiveAndSms ==
  \A p \in Procs :
    /\ Cardinality(CodesOf(abs[p].checkin)) <= 1
    /\ (abs[p].checkin # 0 /\ CodesOf(abs[p].checkin) # {}) => MayIssue(abs[p])
    /\ Processed(abs[p]) =>
         /\ ~MayIssue(abs[p]) => (CodesOf(abs[p].checkin) = {} /\ abs[p].inserts = 0)
         /\ (MayIssue(abs[p])
               /\ abs[p].smsError \notin {"insert failed", "Unable to generate access code"})
              => \E r \in CodesOf(abs[p].checkin) : r.code = abs[p].code

\* C17 witness: a check-in processed while a password was active got its code, and
\* one processed in a deployment without SMS got none though a password was active
C17_Witness ==
  \E p \in Procs :
    /\ Processed(abs[p]) /\ abs[p].active /\ env.twilio
    /\ CodesOf(abs[p].checkin) # {}
C17_ActiveButNoSms ==
  \E p \in Procs :
    /\ Processed(abs[p]) /\ abs[p].active /\ ~env.twilio
    /\ CodesOf(abs[p].checkin) = {}
C17_NoActive ==
  \E p \in Procs :
    /\ Processed(abs[p]) /\ ~abs[p].active /\ env.twilio
    /\ abs[p].resp.smsError = "No active live stream password configured"

(***************************************************************************)
(* Access-code validation: POST verify-stream-code.                        *)
(***************************************************************************)

\* request bodies: text JSON.parse rejects, or an object whose code is a string
\* ("" stands for a missing code as well: both are falsy)
VerBody(c) == [parses |-> TRUE, code |-> c]
VerMalformed == [parses |-> FALSE, code |-> << >>]

\* the codes viewers type: codes of the alphabet, as sent and in lower case, a
\* short one and none
VerInputs ==
  { VerMalformed, VerBody(<< >>), VerBody(<<"A", "B", "C">>) }
    \cup { VerBody(generateAccessCode(d)) : d \in CodeDraws }
    \cup { VerBody(toLowerCase(generateAccessCode(d))) : d \in CodeDraws }

\* respond(statusCode, {error, valid: false})
VerRespond(code, message) ==
  [NoVerResp EXCEPT !.status = code, !.json = TRUE, !.error = message]

VerAnswer(v, r) == [v EXCEPT !.pc = "done", !.resp = r]

\* the catch block
VerError(v) == VerAnswer(v, VerRespond(500, "Failed to verify access code"))

\* successful validations so far, of all codes
RECURSIVE SumLen(_)
SumLen(log) == IF log = << >> THEN 0 ELSE Len(Head(log)) + SumLen(Tail(log))
TotalUses == SumLen(valLog)

\* lines 194-214: method, pool, JSON.parse, the format check, toUpperCase
VerReceive(p, method, body) ==
  /\ ver[p].pc = "idle"
  /\ TotalUses + Cardinality({ q \in Procs : ver[q].pc # "idle" }) < MaxUses
  /\ ver' = [ver EXCEPT ![p] =
       IF method = "OPTIONS"
       THEN VerAnswer(IdleVer, [NoVerResp EXCEPT !.status = 200])
       ELSE IF method # "POST" THEN VerAnswer(IdleVer, VerRespond(405, "Method not allowed"))
       ELSE IF ~env.db THEN VerAnswer(IdleVer, VerRespond(503, "Database not configured"))
       ELSE IF ~body.parses THEN VerError(IdleVer)
       ELSE IF body.code = << >> \/ Len(body.code) # CodeLen
       THEN VerAnswer(IdleVer, VerRespond(400, "Invalid code format"))
       ELSE [IdleVer EXCEPT !.pc = "lookup", !.code = toUpperCase(body.code)]]
  /\ UNCHANGED <<env, userVars, attVars, schedule, sched, now, checkins, vimeo, codes, sms, valLog, abs, rot>>

\* a validation request is served while no check-in or rotation is in flight
VerReceiveApart(p, method, body) ==
  /\ \A q \in Procs : abs[q].pc = "idle"
  /\ rot.pc = "idle"
  /\ VerReceive(p, method, body)

\* line 240: now > expiresAt
ExpiredNever(t, expiresAt) == FALSE
Expired(t, expiresAt) == t > expiresAt

\* lines 231-242: the checks on the row read, in the order of the code; "" when
\* the row passes both
RevokedIgnored(row, t) == IF Expired(t, row.expires_at) THEN "expired" ELSE ""
ExpiryFirst(row, t) ==
  IF Expired(t, row.expires_at) THEN "expired"
  ELSE IF row.revoked THEN "revoked"
  ELSE ""
RowCheck(row, t) ==
  IF row.revoked THEN "revoked"
  ELSE IF Expired(t, row.expires_at) THEN "expired"
  ELSE ""

\* lines 217-242: SELECT ... WHERE code = $1, then the checks on rows[0]
VerLookup(p) ==
  /\ ver[p].pc = "lookup"
  /\ \E ok \in BOOLEAN :
       LET rows == { r \in codes : r.code = ver[p].code } IN
       IF ~ok THEN ver' = [ver EXCEPT ![p] = VerError(@)]
       ELSE IF rows = {}
       THEN ver' = [ver EXCEPT ![p] = VerAnswer(@, VerRespond(404, "Access code not found"))]
       ELSE \E accessCode \in rows :
              LET v == [ver[p] EXCEPT !.found = TRUE, !.at = now, !.accessCode =
                          [id |-> accessCode.id, expires_at |-> accessCode.expires_at,
                           revoked |-> accessCode.revoked, use_count |-> accessCode.use_count]]
                  failure == RowCheck(accessCode, now)
              IN ver' = [ver EXCEPT ![p] =
                   IF failure = "revoked"
                   THEN VerAnswer(v, [VerRespond(403, "This access code has been revoked")
                                        EXCEPT !.revoked = TRUE])
                   ELSE IF failure = "expired"
                   THEN VerAnswer(v, [VerRespond(403, "This access code has expired")
                                        EXCEPT !.expired = TRUE])
                   ELSE [v EXCEPT !.pc = "active"]]
  /\ UNCHANGED <<env, userVars, attVars, schedule, sched, now, checkins, vimeo, codes, sms, valLog, abs, rot>>

\* lines 245-257: the active livestream password
VerActive(p) ==
  /\ ver[p].pc = "active"
  /\ \E ok \in BOOLEAN :
       IF ~ok THEN ver' = [ver EXCEPT ![p] = VerError(@)]
       ELSE IF ActiveRows = {}
       THEN ver' = [ver EXCEPT ![p] = VerAnswer(@, VerRespond(503, "No active stream configured"))]
       ELSE \E row \in LatestActive :
              ver' = [ver EXCEPT ![p].pc = "update",
                                 ![p].vimeo = [videoId |-> row.video_id, password |-> row.password]]
  /\ UNCHANGED <<env, userVars, attVars, schedule, sched, now, checkins, vimeo, codes, sms, valLog, abs, rot>>

\* COALESCE(first_used_at, CURRENT_TIMESTAMP)
Overwrite(old, t) == <<t>>
COALESCE(old, t) == IF old # NULL THEN old ELSE <<t>>

\* last_used_at = CURRENT_TIMESTAMP
KeepFirst(old, t) == IF old # NULL THEN old ELSE <<t>>
Refresh(old, t) == <<t>>

\* line 264: use_count = use_count + 1, which the store evaluates on the row as
\* stored, not on the row the handler read (accessCode.use_count)
OneMoreThanRead(stored, read) == read + 1
OneMore(stored, read) == stored + 1

\* lines 259-266: UPDATE stream_access_codes SET first_used_at, last_used_at,
\* use_count WHERE id = $1; no other column is written
UsedAndRenewed(r, read, t) ==
  [r EXCEPT !.first_used_at = COALESCE(@, t), !.last_used_at = Refresh(@, t),
            !.use_count = OneMore(@, read.use_count), !.expires_at = t + ExpiryHours]
Used(r, read, t) ==
  [r EXCEPT !.first_used_at = COALESCE(@, t), !.last_used_at = Refresh(@, t),
            !.use_count = OneMore(@, read.use_count)]

\* lines 259-280: the usage UPDATE of the row read, then the credentials
VerUpdate(p) ==
  /\ ver[p].pc = "update"
  /\ \E ok \in BOOLEAN :
       IF ok
       THEN LET id == ver[p].accessCode.id IN
            /\ codes' = { IF r.id = id THEN Used(r, ver[p].accessCode, now) ELSE r : r \in codes }
            /\ valLog' = [valLog EXCEPT ![id] = Append(@, now)]
            /\ ver' = [ver EXCEPT ![p] =
                 VerAnswer(@, [NoVerResp EXCEPT !.status = 200, !.json = TRUE, !.valid = TRUE,
                                                !.creds = ver[p].vimeo])]
       ELSE /\ ver' = [ver EXCEPT ![p] = VerError(@)]
            /\ UNCHANGED <<codes, valLog>>
  /\ UNCHANGED <<env, userVars, attVars, schedule, sched, now, checkins, vimeo, sms, abs, rot>>

\* the invocation ends
VerFinish(p) ==
  /\ ver[p].pc = "done"
  /\ ver' = [ver EXCEPT ![p] = IdleVer]
  /\ UNCHANGED <<env, userVars, attVars, schedule, sched, now, checkins, vimeo, codes, sms, valLog, abs, rot>>

VerStep(p) == VerLookup(p) \/ VerActive(p) \/ VerUpdate(p) \/ VerFinish(p)

\* the check-in that issues a code to a member of the directory
IssuingBody == AbsBody(NameAnn, PhoneAnn, "sick", TRUE, FALSE)

\* the run of the random source under which that check-in draws its code; the
\* other codes of VerInputs are then codes that were never issued
IssuingDraws == { <<0, 1, 2, 3, 4, 5>> }

\* validation is followed on one stored code: a check-in is served while none is stored
AbsReceiveFirst ==
  /\ Quiet
  /\ codes = {}
  /\ AbsReceive(SeqProc, "self", "POST", IssuingBody)

\* time passes once a code is stored, while no check-in or rotation is in flight
TickApart ==
  /\ codes # {}
  /\ \A q \in Procs : abs[q].pc = "idle"
  /\ rot.pc = "idle"
  /\ Tick

\* validations overlap one another while time passes and the code is revoked;
\* check-ins and rotations run apart from them
VerNext ==
  \/ \E p \in Procs, method \in Methods :
       \E body \in (IF method = "POST" THEN VerInputs ELSE {VerMalformed}) :
         VerReceiveApart(p, method, body)
  \/ \E p \in Procs : VerStep(p)
  \/ AbsReceiveFirst
  \/ AbsStepDrawing(SeqProc, IssuingDraws)
  \/ RotReceiveAlone("POST", "", "pwA")
  \/ RotStep
  \/ TickApart
  \/ \E r \in codes : AdminRevoke(r.id)

VerInit == Init /\ env \in {EnvFull, EnvNoDb}

VerSpec == VerInit /\ [][VerNext]_vars

(***************************************************************************)
(* Code generation followed through validation: the runs of the random     *)
(* source return every index of the alphabet in every one of the six       *)
(* rounds, and the viewer types the code issued in upper, lower or mixed   *)
(* case.                                                                   *)
(***************************************************************************)
GenDraws ==
  { [i \in 1..CodeLen |-> (k + i) % Len(Chars)] : k \in 0..(Len(Chars) - 1) }

\* the ways a viewer types a code: as sent, in lower case, every other letter lowered
TypedAs(c) ==
  { c, toLowerCase(c), [i \in 1..Len(c) |-> IF i % 2 = 1 THEN LowerChar(c[i]) ELSE c[i]] }

GenInputs ==
  { VerBody(<<"A", "B", "C">>) } \cup { VerBody(v) : v \in UNION { TypedAs(r.code) : r \in codes } }

GenNext ==
  \/ \E body \in GenInputs : VerReceiveApart(SeqProc, "POST", body)
  \/ VerStep(SeqProc)
  \/ AbsReceiveFirst
  \/ AbsStepDrawing(SeqProc, GenDraws)
  \/ RotReceiveAlone("POST", "", "pwA")
  \/ RotStep

\* every credential is configured
FullInit == Init /\ env = EnvFull

GenSpec == FullInit /\ [][GenNext]_vars

(***************************************************************************)
(* The recorder run on a store whose other tables hold rows: a password    *)
(* was rotated and a check-in was issued a code before attendance is       *)
(* recorded for two service occurrences.                                   *)
(***************************************************************************)
FrameBodies ==
  [parses : {TRUE}, date : { <<"2024-05-05">> }, serviceType : {"Sunday Morning"},
   isArray : {TRUE}, attendeeIds : { << >>, <<"m1">>, <<"zz">> }] \cup
  [parses : {TRUE}, date : { <<"2024-05-05">> }, serviceType : {"Wednesday Evening"},
   isArray : {TRUE}, attendeeIds : { <<"m1">>, <<"m1", "m2">> }]

\* attendance is recorded once the check-in has been served
FrameReceive(body) ==
  /\ codes # {}
  /\ \A q \in Procs : abs[q].pc = "idle"
  /\ rot.pc = "idle"
  /\ RecReceiveAlone(SeqProc, "POST", body)

FrameNext ==
  \/ AbsReceiveFirst
  \/ AbsStepDrawing(SeqProc, IssuingDraws)
  \/ RotReceiveAlone("POST", "", "pwA")
  \/ RotStep
  \/ \E body \in FrameBodies : FrameReceive(body)
  \/ RecStep(SeqProc)

FrameSpec == FullInit /\ [][FrameNext]_vars

(***************************************************************************)
(* Validation: properties.                                                 *)
(***************************************************************************)

\* a validation has answered after reading the code's row
Looked(p) == ver[p].pc = "done" /\ ver[p].found

\* the answer carries no stream credentials
NoCredentials(p) == ver[p].resp.creds = NoCreds /\ ~ver[p].resp.valid

AnswersExpired(p) ==
  /\ ver[p].resp.status = 403 /\ ver[p].resp.expired /\ ~ver[p].resp.revoked
  /\ ver[p].resp.error = "This access code has expired"

AnswersRevoked(p) ==
  /\ ver[p].resp.status = 403 /\ ver[p].resp.revoked /\ ~ver[p].resp.expired
  /\ ver[p].resp.error = "This access code has been revoked"

\* C4 as stated: every validation of a stored code made later than the code's
\* expires_at answers Expired (403, expired: true) and returns no credentials.
C4_ExpiredAlwaysReported ==
  \A p \in Procs :
    (Looked(p) /\ ver[p].at > ver[p].accessCode.expires_at)
      => (AnswersExpired(p) /\ NoCredentials(p))

\* C4: a validation made later than the code's expires_at never returns stream
\* credentials, and answers Expired (403, expired: true) when the code is not
\* revoked, whatever the use history and the active password.
C4_ExpiredNeverCredentials ==
  \A p \in Procs :
    /\ (ver[p].found /\ ver[p].at > ver[p].accessCode.expires_at)
         => (ver[p].pc = "done" /\ NoCredentials(p) /\ ver[p].vimeo = NoCreds)
    /\ (Looked(p) /\ ver[p].at > ver[p].accessCode.expires_at /\ ~ver[p].accessCode.revoked)
         => AnswersExpired(p)

\* C4 witness: a code that was validated before, is past expires_at while an active
\* password is stored, and is answered Expired
C4_Witness ==
  \E p \in Procs :
    /\ Looked(p) /\ ver[p].at > ver[p].accessCode.expires_at
    /\ AnswersExpired(p)
    /\ ActiveRows # {}
    /\ \E r \in codes : r.id = ver[p].accessCode.id /\ r.use_count > 0

\* C5: a validation that reads a row whose revoked flag is true answers Revoked
\* (403, revoked: true) and returns no credentials, also before expires_at and
\* with an active password stored.
C5_RevokedRejected ==
  \A p \in Procs :
    (ver[p].found /\ ver[p].accessCode.revoked)
      => (ver[p].pc = "done" /\ AnswersRevoked(p) /\ NoCredentials(p) /\ ver[p].vimeo = NoCreds)

\* C5 witness: the revoked code is not yet expired and an active password is stored
C5_Witness ==
  \E p \in Procs :
    /\ Looked(p) /\ ver[p].accessCode.revoked
    /\ ver[p].at < ver[p].accessCode.expires_at
    /\ ActiveRows # {}
    /\ AnswersRevoked(p)

\* a validation that was answered by one of the four checks or passed them all
Decided(p) ==
  /\ ver[p].pc = "done"
  /\ ver[p].code # << >>
  /\ ver[p].resp.status # 500

\* C6: the answer is that of the first failing check in the order existence,
\* revoked flag, expiry, active password: NotFound for an unknown code, Revoked
\* for a revoked row also when it is expired, Expired for an unrevoked expired
\* row also when no password is active, NoActiveStream only for a stored,
\* unrevoked, unexpired code.
C6_FirstFailingCheck ==
  \A p \in Procs :
    Decided(p) =>
      LET row == ver[p].accessCode
          late == ver[p].at > row.expires_at
          resp == ver[p].resp
      IN /\ ~ver[p].found
              <=> (resp.status = 404 /\ resp.error = "Access code not found")
         /\ (ver[p].found /\ row.revoked) <=> AnswersRevoked(p)
         /\ (ver[p].found /\ ~row.revoked /\ late) <=> AnswersExpired(p)
         /\ (resp.status = 503 /\ resp.error = "No active stream configured")
              => (ver[p].found /\ ~row.revoked /\ ~late /\ ver[p].vimeo = NoCreds)
         /\ resp.status = 200
              => (ver[p].found /\ ~row.revoked /\ ~late /\ resp.valid
                    /\ resp.creds = ver[p].vimeo /\ ver[p].vimeo # NoCreds)
         /\ resp.status \in {200, 403, 404, 503}

\* C6 witness: a code both revoked and expired is answered Revoked
C6_Witness ==
  \E p \in Procs :
    /\ Decided(p) /\ ver[p].found
    /\ ver[p].accessCode.revoked
    /\ ver[p].at > ver[p].accessCode.expires_at
    /\ AnswersRevoked(p)

\* C6 witness: an expired code is answered Expired while no password is active
C6_ExpiredNoStream ==
  \E p \in Procs : Decided(p) /\ AnswersExpired(p) /\ ActiveRows = {}

\* C6 witness: NoActiveStream, and NotFound
C6_NoActiveStream ==
  \E p \in Procs : Decided(p) /\ ver[p].resp.error = "No active stream configured"
C6_NotFound ==
  \E p \in Procs : Decided(p) /\ ver[p].resp.status = 404

\* one step on one code row: the counter does not decrease, a set first_used_at
\* stays, and first_used_at is set by the step that counts the first validation
UsageStep(r, q) ==
  /\ q.use_count >= r.use_count
  /\ r.first_used_at # NULL => q.first_used_at = r.first_used_at
  /\ (r.first_used_at = NULL /\ q.first_used_at # NULL)
       => (r.use_count = 0 /\ q.use_count = 1 /\ q.first_used_at = <<now>>)

\* C7: in every step of every run the use_count of a stored code does not
\* decrease and its row stays stored; first_used_at is NULL exactly while
\* use_count is 0, is set by the first successful validation and never changes
\* afterwards.
C7_UsageMonotone ==
  /\ [](\A r \in codes : (r.first_used_at = NULL) <=> (r.use_count = 0))
  /\ [][\A r \in codes : \E q \in codes' : q.id = r.id /\ UsageStep(r, q)]_vars

\* C7 witness: a code validated at least twice, the last time later than the first
C7_Witness ==
  \E r \in codes :
    /\ r.use_count >= 2
    /\ r.first_used_at # r.last_used_at

\* C8: a code validated n times has use_count = n; for n >= 1 its first_used_at is
\* the time of the first validation and its last_used_at the time of the n-th;
\* a fresh code has use_count 0 and both timestamps NULL.
C8_UsageMatchesValidations ==
  /\ Len(valLog) = Cardinality(codes)
  /\ \A r \in codes :
       LET log == valLog[r.id]
           n == Len(log)
       IN /\ r.use_count = n
          /\ n = 0 => (r.first_used_at = NULL /\ r.last_used_at = NULL)
          /\ n >= 1 => (r.first_used_at = <<log[1]>> /\ r.last_used_at = <<log[n]>>)

\* C8 witness: the spec's scenario, three validations at three different times
C8_Witness ==
  \E r \in codes :
    /\ r.use_count = 3
    /\ valLog[r.id][1] < valLog[r.id][2]
    /\ valLog[r.id][2] < valLog[r.id][3]

\* a code row is past validating: revoked, or the clock is past its expires_at
Terminal(r) == r.revoked \/ now > r.expires_at

\* slot p has answered that the code it read is expired or revoked
FailedForGood(p) ==
  ver[p].pc = "done" /\ (ver[p].resp.expired \/ ver[p].resp.revoked)

\* one step on one code row: the code and expires_at stay and revoked is not cleared
RowKept(r, q) ==
  /\ q.code = r.code /\ q.expires_at = r.expires_at
  /\ r.revoked => q.revoked

\* slot p reads the row of its code in this step and the row passes the checks
PassesChecks(p) == ver[p].pc = "lookup" /\ ver'[p].pc = "active"

\* C24: Expired and Revoked are terminal: no step changes expires_at or clears
\* revoked on a stored code and the clock does not go back, so the row of a code
\* that a validation answered Expired or Revoked stays past validating, and a
\* validation passes the checks only on a row that is not; until then the code
\* is validated any number of times.
C24_ExpiredRevokedTerminal ==
  /\ [](\A p \in Procs :
          FailedForGood(p) => \A r \in codes : r.id = ver[p].accessCode.id => Terminal(r))
  /\ [](\A p \in Procs :
          (ver[p].pc \in {"active", "update"} \/ (ver[p].pc = "done" /\ ver[p].resp.valid))
            => (~ver[p].accessCode.revoked /\ ver[p].at <= ver[p].accessCode.expires_at))
  /\ [][/\ now' >= now
        /\ \A r \in codes : \E q \in codes' : q.id = r.id /\ RowKept(r, q)
        /\ \A p \in Procs :
             PassesChecks(p) => \A r \in codes : r.code = ver[p].code => ~Terminal(r)]_vars

\* C24 witness: a code validated twice was then answered Expired
C24_Witness ==
  \E p \in Procs :
    /\ FailedForGood(p) /\ ver[p].resp.expired
    /\ \E r \in codes : r.id = ver[p].accessCode.id /\ r.use_count >= 2

\* C24 witness: a code validated once was revoked and then answered Revoked
C24_RevokedAfterUse ==
  \E p \in Procs :
    /\ FailedForGood(p) /\ ver[p].resp.revoked
    /\ \E r \in codes : r.id = ver[p].accessCode.id /\ r.use_count >= 1

\* C25: access codes are never deleted: in every step, the deletion of the
\* originating check-in included, each stored stream_access_codes row is still
\* stored with the same id and code, so the stored codes only grow, and the rows
\* stored are as many as the rows ever inserted.
C25_CodesNeverDeleted ==
  /\ [](Cardinality(codes) = Len(valLog))
  /\ [][/\ \A r \in codes : \E q \in codes' : q.id = r.id /\ q.code = r.code
        /\ { r.code : r \in codes } \subseteq { q.code : q \in codes' }]_vars

\* C25 witness: the check-in a stored code was issued for has been deleted
C25_Witness ==
  \E p \in Procs, r \in codes :
    /\ abs[p].pc = "done" /\ abs[p].kind = "delete" /\ abs[p].resp.status = 200
    /\ r.checkin = 0
    /\ \E k \in checkins : k.id = -abs[p].checkin

\* the symbols of generateAccessCode's alphabet, and the ones left out as ambiguous
Alphabet == { Chars[i] : i \in 1..Len(Chars) }
Ambiguous == {"0", "O", "I", "1", "L"}

\* every letter-case spelling of a code
CaseVariants(c) ==
  { [i \in 1..Len(c) |-> IF i \in low THEN LowerChar(c[i]) ELSE c[i]] :
      low \in SUBSET (1..Len(c)) }

\* the alphabet has n symbols, none ambiguous; every stored code has 6 of them,
\* is upper-case, and each of its spellings has the length the verifier asks for
\* and is upper-cased to the stored code; no spelling typed is answered 404
CodeShape(n) ==
  /\ Len(Chars) = n /\ Cardinality(Alphabet) = n
  /\ Alphabet \cap Ambiguous = {}
  /\ \A r \in codes :
       /\ Len(r.code) = 6
       /\ \A i \in 1..Len(r.code) : r.code[i] \in Alphabet
       /\ \A i \in 1..Len(r.code) : UpperChar(r.code[i]) = r.code[i]
       /\ \A v \in CaseVariants(r.code) :
            v # << >> /\ Len(v) = CodeLen /\ toUpperCase(v) = r.code
  /\ \A p \in Procs :
       (ver[p].pc = "done" /\ ver[p].resp.status = 404) => codes = {}

\* C26 as stated: issued codes have 6 characters of an alphabet of exactly 32
\* symbols without 0, O, I, 1, L, are upper-case, pass the length-6 check and are
\* found by the upper-cased lookup in any letter case.
C26_AlphabetOfThirtyTwo == CodeShape(32)

\* C26: issued codes have 6 characters of an alphabet of exactly 31 symbols
\* without 0, O, I, 1, L, are upper-case, pass the verifier's length-6 check and
\* are found by the verifier's upper-cased lookup in any letter case.
C26_AlphabetOfThirtyOne == CodeShape(31)

\* C26 witness: a code with a letter and a digit in it was typed and validated
C26_Witness ==
  \E r \in codes :
    /\ r.code[1] = "Z"
    /\ r.code[2] = "2"
    /\ r.use_count >= 2
    /\ ver[SeqProc].pc = "done" /\ ver[SeqProc].resp.valid /\ ver[SeqProc].code = r.code

\* C27: the users endpoint never deletes the last admin: a DELETE that is
\* answered 400 for the last admin has left the table as it was, and no step,
\* however DELETE requests interleave, takes the users table from holding an
\* admin to holding none.
C27_LastAdminNeverDeleted ==
  [][Admins # {} => Admins' # {}]_vars

\* slot p's call has committed and answered 200 for the pair (d, s)
Committed(p, d, s) ==
  /\ rec[p].pc \in {"release", "done"} /\ rec[p].resp.status = 200 /\ rec[p].resp.json
  /\ rec[p].date = d /\ rec[p].serviceType = s

\* C28: when two recordAttendance calls for one (date, serviceType) with lists P1
\* and P2 ran concurrently and both committed, the member set stored for the pair
\* is P1 or P2, never a mixture such as their union.
C28_OneListStored ==
  \A pr \in Pairs : \A p \in Procs : \A q \in Procs \ {p} :
    (Committed(p, pr[1], pr[2]) /\ Committed(q, pr[1], pr[2]))
      => { r.member_id : r \in RowsOf(attendance, pr[1], pr[2]) }
           \in { Range(rec[p].ids), Range(rec[q].ids) }

\* in this step slot p answers 200 for the code row id
Succeeds(p, id) ==
  /\ ver[p].pc # "done" /\ ver'[p].pc = "done"
  /\ ver'[p].resp.status = 200 /\ ver'[p].accessCode.id = id

\* in this step slot p answers NotFound, Revoked, Expired or NoActiveStream
Refuses(p) ==
  /\ ver[p].pc # "done" /\ ver'[p].pc = "done"
  /\ ver'[p].resp.status \in {403, 404, 503}

\* C29: however validations of one code interleave, each step raises the code's
\* use_count by the number of validations that answer 200 in it, so no increment
\* is lost and use_count is the number of successes; a step in which a validation
\* answers NotFound, Revoked, Expired or NoActiveStream leaves every code row,
\* use_count, first_used_at and last_used_at included, as it was.
C29_NoIncrementLost ==
  /\ [](\A r \in codes : r.use_count = Len(valLog[r.id]))
  /\ [][/\ \A r \in codes : \E q \in codes' :
             /\ q.id = r.id
             /\ q.use_count = r.use_count + Cardinality({ p \in Procs : Succeeds(p, r.id) })
        /\ (\E p \in Procs : Refuses(p)) => codes' = codes]_vars

\* C29 witness: two validations of one code that read the same use_count have
\* both answered 200, and the count is 2
C29_Witness ==
  \E r \in codes :
    /\ r.use_count = 2
    /\ \A p \in Procs :
         /\ ver[p].pc = "done" /\ ver[p].resp.status = 200
         /\ ver[p].accessCode.id = r.id /\ ver[p].accessCode.use_count = 0

\* C29 witness: a validation is refused while another of the same code is in flight
C29_RefusedWhileInFlight ==
  \E p \in Procs, q \in Procs :
    /\ ver[p].pc = "done" /\ ver[p].resp.status = 403
    /\ ver[q].pc = "update" /\ ver[q].accessCode.id = ver[p].accessCode.id

\* the attendance rows that one step adds, removes or changes
Touched == (attendance' \ attendance) \cup (attendance \ attendance')

C30_Failed ==
  \E p \in Procs :
    /\ rec[p].pc = "done" /\ rec[p].resp.status = 500 /\ rec[p].failed = "insert"
    /\ rec[p].before # {}
    /\ RowsOf(attendance, <<"2024-05-05">>, "Wednesday Evening") # {}
    /\ RowsOf(attendance, <<"2024-05-05">>, "Sunday Morning") # {}
    /\ checkins # {} /\ vimeo # {} /\ codes # {}

====
